---- MODULE Spec2Model ----
(***************************************************************************)
(* Model of the expense core of leetdavid/even: the validators             *)
(* (validateSplits, validatePayments) and the debt settlement              *)
(* (calculateDebts) of src/src/server/db/schema.ts.                        *)
(*                                                                         *)
(* The code computes on JavaScript numbers, so the model carries IEEE-754  *)
(* binary64 values and rounds every operation to nearest-even exactly as   *)
(* the engine does: 100.01 - 100 is 0.010000000000005116 here as it is in  *)
(* the program.  Amount strings are strings and go through parseFloat;     *)
(* numbers are formatted by toFixed.                                       *)
(***************************************************************************)
EXTENDS Integers, Sequences, FiniteSets, TLC

(***************************************************************************)
(* Natural numbers of any size, as little-endian sequences of limbs below  *)
(* Base with no leading zero limb (TLC's integers are 32 bits wide and a   *)
(* binary64 significand is 53).  <<>> is zero.                             *)
(***************************************************************************)
Base == 2^15

RECURSIVE BTrim(_)
BTrim(a) ==
  IF a = <<>> THEN a
  ELSE IF a[Len(a)] = 0 THEN BTrim(SubSeq(a, 1, Len(a) - 1))
  ELSE a

RECURSIVE BFromInt(_)
BFromInt(n) == IF n = 0 THEN <<>> ELSE <<n % Base>> \o BFromInt(n \div Base)

RECURSIVE BAddC(_, _, _)
BAddC(a, b, c) ==
  IF a = <<>> /\ b = <<>> THEN (IF c = 0 THEN <<>> ELSE <<c>>)
  ELSE LET x == IF a = <<>> THEN 0 ELSE Head(a)
           y == IF b = <<>> THEN 0 ELSE Head(b)
           t == x + y + c
       IN  <<t % Base>> \o BAddC(IF a = <<>> THEN a ELSE Tail(a),
                                 IF b = <<>> THEN b ELSE Tail(b),
                                 t \div Base)

BAdd(a, b) == BAddC(a, b, 0)

\* a - b for a >= b
RECURSIVE BSubB(_, _, _)
BSubB(a, b, br) ==
  IF a = <<>> THEN <<>>
  ELSE LET y == IF b = <<>> THEN 0 ELSE Head(b)
           t == Head(a) - y - br
       IN  <<t % Base>> \o BSubB(Tail(a),
                                 IF b = <<>> THEN b ELSE Tail(b),
                                 IF t < 0 THEN 1 ELSE 0)

BSub(a, b) == BTrim(BSubB(a, b, 0))

RECURSIVE BCmpAt(_, _, _)
BCmpAt(a, b, i) ==
  IF i = 0 THEN 0
  ELSE IF a[i] > b[i] THEN 1
  ELSE IF a[i] < b[i] THEN -1
  ELSE BCmpAt(a, b, i - 1)

\* -1, 0 or 1 as a < b, a = b, a > b
BCmp(a, b) ==
  IF Len(a) > Len(b) THEN 1
  ELSE IF Len(a) < Len(b) THEN -1
  ELSE BCmpAt(a, b, Len(a))

\* a * c + carry for 0 <= c, carry < Base
RECURSIVE BMulSmallC(_, _, _)
BMulSmallC(a, c, carry) ==
  IF a = <<>> THEN (IF carry = 0 THEN <<>> ELSE <<carry>>)
  ELSE LET t == Head(a) * c + carry
       IN  <<t % Base>> \o BMulSmallC(Tail(a), c, t \div Base)

BMulSmall(a, c) == IF c = 0 THEN <<>> ELSE BMulSmallC(a, c, 0)

\* quotient (untrimmed) and remainder of a by 0 < c < 2 * Base
RECURSIVE BDivSmall(_, _)
BDivSmall(a, c) ==
  IF a = <<>> THEN [q |-> <<>>, r |-> 0]
  ELSE LET hi == BDivSmall(Tail(a), c)
           t  == hi.r * Base + Head(a)
       IN  [q |-> <<t \div c>> \o hi.q, r |-> t % c]

BZeros(n) == [i \in 1..n |-> 0]

\* a * 2^k
BShl(a, k) ==
  IF a = <<>> THEN a
  ELSE BZeros(k \div 15) \o BMulSmallC(a, 2^(k % 15), 0)

\* floor(a / 2^k), and whether a nonzero remainder was dropped
BShr(a, k) ==
  LET drop == k \div 15 IN
  IF drop >= Len(a) THEN [q |-> <<>>, sticky |-> a # <<>>]
  ELSE LET d == BDivSmall(SubSeq(a, drop + 1, Len(a)), 2^(k % 15))
       IN  [q |-> BTrim(d.q),
            sticky |-> d.r # 0 \/ \E i \in 1..drop : a[i] # 0]

\* number of binary digits of a > 0
BitLen(a) ==
  (Len(a) - 1) * 15
    + (CHOOSE b \in 1..15 : 2^(b - 1) <= a[Len(a)] /\ a[Len(a)] < 2^b)

BOdd(a) == a # <<>> /\ a[1] % 2 = 1

RECURSIVE BDecimal(_)
BDecimal(a) ==
  IF a = <<>> THEN ""
  ELSE LET d == BDivSmall(a, 10)
       IN  BDecimal(BTrim(d.q)) \o ToString(d.r)

(***************************************************************************)
(* JavaScript numbers (IEEE-754 binary64).  A finite nonzero number is     *)
(* (-1)^neg * man * 2^exp with 2^52 <= man < 2^53; zero has man = <<>>     *)
(* (the sign of zero is not kept: nothing in the modelled code reads it);  *)
(* NaN is its own value.  The amounts of the model stay far inside the     *)
(* normal range, so infinities and subnormals do not occur.                *)
(***************************************************************************)
Precision == 53

NaN == [nan |-> TRUE, neg |-> FALSE, exp |-> 0, man |-> <<>>]

Zero == [nan |-> FALSE, neg |-> FALSE, exp |-> 0, man |-> <<>>]

IsNaN(x) == x.nan

IsZero(x) == ~x.nan /\ x.man = <<>>

\* The binary64 nearest (-1)^neg * (n + f) * 2^e, ties to even, where
\* 0 <= f < 1 and f > 0 exactly when sticky (then n has more than
\* Precision + 1 digits: f is below the rounding position).
RoundToDouble(neg, n, e, sticky) ==
  IF n = <<>> THEN Zero
  ELSE LET len == BitLen(n) IN
    IF len <= Precision
    THEN [nan |-> FALSE, neg |-> neg, exp |-> e - (Precision - len),
          man |-> BShl(n, Precision - len)]
    ELSE LET s    == BShr(n, len - Precision - 1)
             q    == BShr(s.q, 1).q
             rest == s.sticky \/ sticky
             up   == BOdd(s.q) /\ (rest \/ BOdd(q))
             m    == IF up THEN BAdd(q, <<1>>) ELSE q
         IN  IF BitLen(m) > Precision
             THEN [nan |-> FALSE, neg |-> neg, exp |-> e + (len - Precision) + 1,
                   man |-> BShr(m, 1).q]
             ELSE [nan |-> FALSE, neg |-> neg, exp |-> e + (len - Precision),
                   man |-> m]

\* x + y
FAdd(x, y) ==
  IF x.nan \/ y.nan THEN NaN
  ELSE IF x.man = <<>> THEN y
  ELSE IF y.man = <<>> THEN x
  ELSE LET e == IF x.exp < y.exp THEN x.exp ELSE y.exp
           a == BShl(x.man, x.exp - e)
           b == BShl(y.man, y.exp - e)
           c == BCmp(a, b)
       IN  IF x.neg = y.neg THEN RoundToDouble(x.neg, BAdd(a, b), e, FALSE)
           ELSE IF c = 0 THEN Zero
           ELSE IF c > 0 THEN RoundToDouble(x.neg, BSub(a, b), e, FALSE)
           ELSE RoundToDouble(y.neg, BSub(b, a), e, FALSE)

FNeg(x) == IF x.nan \/ x.man = <<>> THEN x ELSE [x EXCEPT !.neg = ~x.neg]

\* x - y
FSub(x, y) == FAdd(x, FNeg(y))

\* a Math.abs that keeps the sign
SameNumber(x) == x

\* Math.abs
MathAbs(x) == IF x.nan THEN x ELSE [x EXCEPT !.neg = FALSE]

\* -1, 0, 1 for the magnitudes of two numbers that are not NaN
MagCmp(x, y) ==
  IF x.man = <<>> THEN (IF y.man = <<>> THEN 0 ELSE -1)
  ELSE IF y.man = <<>> THEN 1
  ELSE IF x.exp > y.exp THEN 1
  ELSE IF x.exp < y.exp THEN -1
  ELSE BCmp(x.man, y.man)

\* x < y; false when either is NaN
FLt(x, y) ==
  /\ ~x.nan
  /\ ~y.nan
  /\ IF x.neg /\ ~y.neg THEN TRUE
     ELSE IF ~x.neg /\ y.neg THEN FALSE
     ELSE IF x.neg THEN MagCmp(x, y) = 1
     ELSE MagCmp(x, y) = -1

\* x >= y in place of x > y (and true of NaN)
NotLess(x, y) == ~FLt(x, y)

\* x > y; false when either is NaN
FGt(x, y) == FLt(y, x)

\* Math.min of two numbers
MathMin(x, y) ==
  IF x.nan \/ y.nan THEN NaN
  ELSE IF FLt(y, x) THEN y
  ELSE x

\* the value of a, for a below 2^31
RECURSIVE BToInt(_)
BToInt(a) == IF a = <<>> THEN 0 ELSE a[1] + Base * BToInt(Tail(a))

\* a * b (untrimmed)
RECURSIVE BMulLimbs(_, _)
BMulLimbs(a, b) ==
  IF b = <<>> THEN <<>>
  ELSE BAdd(BMulSmall(a, Head(b)), <<0>> \o BMulLimbs(a, Tail(b)))

BMul(a, b) == BTrim(BMulLimbs(a, b))

\* the number that is the integer n >= 0 (n below 2^31 is below 2^53)
FromInt(n) == RoundToDouble(FALSE, BFromInt(n), 0, FALSE)

\* x * y
FMul(x, y) ==
  IF x.nan \/ y.nan THEN NaN
  ELSE IF x.man = <<>> \/ y.man = <<>> THEN Zero
  ELSE RoundToDouble(x.neg # y.neg, BMul(x.man, y.man), x.exp + y.exp, FALSE)

\* the integer a number is, for a positive whole number below 2 * Base
WholeValue(y) ==
  BToInt(IF y.exp >= 0 THEN BShl(y.man, y.exp) ELSE BShr(y.man, -y.exp).q)

\* x / y for a divisor that is a positive whole number below 2 * Base: the
\* code divides by the length of a list and by the literal 100 only
FDiv(x, y) ==
  IF x.nan \/ y.nan THEN NaN
  ELSE IF x.man = <<>> THEN Zero
  ELSE LET d == BDivSmall(BShl(x.man, 30), WholeValue(y))
       IN  RoundToDouble(x.neg # y.neg, BTrim(d.q), x.exp - 30, d.r # 0)

\* Math.round: the nearest integer, the one towards +Infinity of two equally
\* near
MathRound(x) ==
  IF x.nan \/ x.man = <<>> \/ x.exp >= 0 THEN x
  ELSE LET twice == BShr(x.man, (-x.exp) - 1)
           n     == IF x.neg
                    THEN BShr(IF twice.sticky THEN BAdd(twice.q, <<1>>)
                              ELSE twice.q, 1).q
                    ELSE BShr(BAdd(twice.q, <<1>>), 1).q
       IN  RoundToDouble(x.neg, n, 0, FALSE)

RECURSIVE BDivPow10(_, _)
\* floor(n / 10^d), and whether a nonzero remainder was dropped
BDivPow10(n, d) ==
  IF d = 0 THEN [q |-> n, sticky |-> FALSE]
  ELSE LET dv   == BDivSmall(n, 10)
           rest == BDivPow10(BTrim(dv.q), d - 1)
       IN  [q |-> rest.q, sticky |-> rest.sticky \/ dv.r # 0]

\* The number nearest the decimal k / 10^d (k a natural, d >= 0): what a
\* numeric literal and a parsed decimal string evaluate to.
DecimalToDouble(neg, k, d) ==
  LET dv == BDivPow10(BZeros(5 + d) \o k, d)
  IN  IF k = <<>> THEN Zero
      ELSE RoundToDouble(neg, dv.q, -15 * (5 + d), dv.sticky)

\* a numeric literal with two decimals, given in hundredths: Num(10001) is 100.01
Num(hundredths) ==
  DecimalToDouble(hundredths < 0,
                  BFromInt(IF hundredths < 0 THEN -hundredths ELSE hundredths), 2)

(***************************************************************************)
(* Strings to numbers and back.                                            *)
(***************************************************************************)
CharAt(s, i) == SubSeq(s, i, i)

DigitChars == {"0", "1", "2", "3", "4", "5", "6", "7", "8", "9"}

DigitValue(c) ==
  CASE c = "0" -> 0 [] c = "1" -> 1 [] c = "2" -> 2 [] c = "3" -> 3
    [] c = "4" -> 4 [] c = "5" -> 5 [] c = "6" -> 6 [] c = "7" -> 7
    [] c = "8" -> 8 [] c = "9" -> 9

RECURSIVE SkipSpaces(_, _)
SkipSpaces(s, i) ==
  IF i <= Len(s) /\ CharAt(s, i) = " " THEN SkipSpaces(s, i + 1) ELSE i

\* the index after the run of decimal digits that starts at i
RECURSIVE DigitRun(_, _)
DigitRun(s, i) ==
  IF i <= Len(s) /\ CharAt(s, i) \in DigitChars THEN DigitRun(s, i + 1) ELSE i

\* the natural number written by the digits s[i], ..., s[j - 1]
RECURSIVE DigitsValue(_, _, _)
DigitsValue(s, i, j) ==
  IF j <= i THEN <<>>
  ELSE BMulSmallC(DigitsValue(s, i, j - 1), 10, DigitValue(CharAt(s, j - 1)))

\* parseFloat: the longest prefix of the trimmed string that is a decimal
\* literal (sign, digits, '.', digits), NaN when there is none.  Exponent
\* parts and "Infinity" are not in the model's strings.
parseFloat(s) ==
  LET i0      == SkipSpaces(s, 1)
      signed  == i0 <= Len(s) /\ CharAt(s, i0) \in {"+", "-"}
      neg     == signed /\ CharAt(s, i0) = "-"
      i1      == IF signed THEN i0 + 1 ELSE i0
      i2      == DigitRun(s, i1)
      dot     == i2 <= Len(s) /\ CharAt(s, i2) = "."
      i3      == IF dot THEN DigitRun(s, i2 + 1) ELSE i2
      nfrac   == IF dot THEN i3 - (i2 + 1) ELSE 0
      k       == IF nfrac = 0 THEN DigitsValue(s, i1, i2)
                 ELSE DigitsValue(SubSeq(s, i1, i2 - 1) \o SubSeq(s, i2 + 1, i3 - 1),
                                  1, (i2 - i1) + nfrac + 1)
  IN  IF i2 = i1 /\ nfrac = 0 THEN NaN
      ELSE DecimalToDouble(neg, k, nfrac)

\* the integer nearest |x| * 10^f, the larger one of two equally near
ScaledMagnitude(x, f) ==
  LET n == BMulSmall(x.man, 10^f)
  IN  IF x.exp >= 0 THEN BShl(n, x.exp)
      ELSE BShr(BAdd(BShr(n, (-x.exp) - 1).q, <<1>>), 1).q

RECURSIVE ZeroPad(_, _)
ZeroPad(str, width) == IF Len(str) >= width THEN str ELSE ZeroPad("0" \o str, width)

\* the decimal string of n / 10^f with f digits after the point (n a natural)
FixedString(neg, n, f) ==
  LET digits == ZeroPad(BDecimal(n), f + 1)
      k      == Len(digits)
  IN  (IF neg THEN "-" ELSE "")
        \o SubSeq(digits, 1, k - f)
        \o (IF f = 0 THEN "" ELSE "." \o SubSeq(digits, k - f + 1, k))

\* Number.prototype.toFixed(f) for 0 <= f <= 4
toFixed(x, f) ==
  IF x.nan THEN "NaN"
  ELSE FixedString(x.neg /\ x.man # <<>>, ScaledMagnitude(x, f), f)

(***************************************************************************)
(* ExpenseSplit / ExpensePayment: a record with userId and, each optional, *)
(* amount (a string) and percentage (a number).  A field that is absent in *)
(* the object is absent in the record.                                     *)
(***************************************************************************)
HasAmount(item) == "amount" \in DOMAIN item

HasPercentage(item) == "percentage" \in DOMAIN item

\* parseFloat(item.amount ?? "0")
AmountOf(item) == parseFloat(IF HasAmount(item) THEN item.amount ELSE "0")

\* item.percentage ?? 0
PercentageOf(item) == IF HasPercentage(item) THEN item.percentage ELSE Zero

\* items.reduce((sum, item) => sum + parseFloat(item.amount ?? "0"), 0)
RECURSIVE SumAmounts(_)
SumAmounts(items) ==
  IF items = <<>> THEN Zero
  ELSE FAdd(SumAmounts(SubSeq(items, 1, Len(items) - 1)),
            AmountOf(items[Len(items)]))

\* items.reduce((sum, item) => sum + (item.percentage ?? 0), 0)
RECURSIVE SumPercentages(_)
SumPercentages(items) ==
  IF items = <<>> THEN Zero
  ELSE FAdd(SumPercentages(SubSeq(items, 1, Len(items) - 1)),
            PercentageOf(items[Len(items)]))

\* the literals 0.01 and 100 of the comparisons
Tolerance == Num(1)

Hundred == Num(10000)

\* Math.abs(a - b) > 0.01
Off(a, b) == FGt(MathAbs(FSub(a, b)), Tolerance)

(***************************************************************************)
(* calculateEqualSplits and calculatePercentageSplits                      *)
(***************************************************************************)
\* an equal split whose percentages are rounded to whole numbers
calculateEqualSplitsWholePercent(totalAmount, participantIds) ==
  [i \in 1..Len(participantIds) |->
     [userId     |-> participantIds[i],
      amount     |-> toFixed(FDiv(totalAmount, FromInt(Len(participantIds))), 2),
      percentage |-> MathRound(FDiv(Hundred, FromInt(Len(participantIds))))]]

calculateEqualSplits(totalAmount, participantIds) ==
  IF Len(participantIds) = 0 THEN <<>>
  ELSE LET splitAmount == FDiv(totalAmount, FromInt(Len(participantIds)))
           percentage  == FDiv(Hundred, FromInt(Len(participantIds)))
       IN  [i \in 1..Len(participantIds) |->
              [userId     |-> participantIds[i],
               amount     |-> toFixed(splitAmount, 2),
               percentage |-> FDiv(MathRound(FMul(percentage, Hundred)), Hundred)]]

\* split.percentage ? ... : ...  (undefined, 0 and NaN are falsy)
HasTruthyPercentage(split) ==
  HasPercentage(split) /\ ~IsNaN(split.percentage) /\ ~IsZero(split.percentage)

\* a percentage split that keeps the amount it was given
GivenAmountOr000(totalAmount, split) ==
  IF HasAmount(split) THEN split.amount ELSE "0.00"

\* the amount of one entry of calculatePercentageSplits
PercentageAmount(totalAmount, split) ==
  IF HasTruthyPercentage(split)
  THEN toFixed(FDiv(FMul(totalAmount, split.percentage), Hundred), 2)
  ELSE "0.00"

\* { ...split, amount: ... }
calculatePercentageSplits(totalAmount, splits) ==
  [i \in 1..Len(splits) |->
     IF HasPercentage(splits[i])
     THEN [userId     |-> splits[i].userId,
           percentage |-> splits[i].percentage,
           amount     |-> PercentageAmount(totalAmount, splits[i])]
     ELSE [userId |-> splits[i].userId,
           amount |-> PercentageAmount(totalAmount, splits[i])]]

(***************************************************************************)
(* validateSplits                                                          *)
(***************************************************************************)
\* a validator that checks the amounts in equal mode too
SplitAmountsCheckedInEqualMode(mode) == mode \in {"custom", "equal"}

SplitPercentagesChecked(mode) == mode = "percentage"

SplitAmountsChecked(mode) == mode = "custom"

\* the checks that follow the empty-list check
validateSplitsRules(totalAmount, splits, mode) ==
  LET totalPercentage  == SumPercentages(splits)
      totalSplitAmount == SumAmounts(splits)
  IN  IF SplitPercentagesChecked(mode) /\ Off(totalPercentage, Hundred)
      THEN [isValid |-> FALSE,
            error |-> "Percentages must add up to 100%, currently "
                        \o toFixed(totalPercentage, 2) \o "%"]
      ELSE IF SplitAmountsChecked(mode) /\ Off(totalSplitAmount, totalAmount)
      THEN [isValid |-> FALSE,
            error |-> "Split amounts must add up to " \o toFixed(totalAmount, 2)
                        \o ", currently " \o toFixed(totalSplitAmount, 2)]
      ELSE [isValid |-> TRUE]

\* a validateSplits that goes to the mode's rule without looking at the length
validateSplitsOfAnyLength(totalAmount, splits, mode) ==
  validateSplitsRules(totalAmount, splits, mode)

validateSplits(totalAmount, splits, mode) ==
  IF Len(splits) = 0 THEN [isValid |-> FALSE, error |-> "No splits provided"]
  ELSE validateSplitsRules(totalAmount, splits, mode)

(***************************************************************************)
(* validatePayments                                                        *)
(***************************************************************************)
\* the checks that follow the empty-list check
validatePaymentsRules(totalAmount, payments, mode) ==
  LET paidAmount         == AmountOf(payments[1])
      totalPercentage    == SumPercentages(payments)
      totalPaymentAmount == SumAmounts(payments)
  IN  IF mode = "single" /\ Off(paidAmount, totalAmount)
      THEN [isValid |-> FALSE,
            error |-> "Single payer must pay the full amount of "
                        \o toFixed(totalAmount, 2)]
      ELSE IF mode = "percentage" /\ Off(totalPercentage, Hundred)
      THEN [isValid |-> FALSE,
            error |-> "Payment percentages must add up to 100%, currently "
                        \o toFixed(totalPercentage, 2) \o "%"]
      ELSE IF mode = "custom" /\ Off(totalPaymentAmount, totalAmount)
      THEN [isValid |-> FALSE,
            error |-> "Payment amounts must add up to " \o toFixed(totalAmount, 2)
                        \o ", currently " \o toFixed(totalPaymentAmount, 2)]
      ELSE [isValid |-> TRUE]

\* a validatePayments that rejects an empty list without saying why
validatePaymentsSilentOnEmpty(totalAmount, payments, mode) ==
  IF Len(payments) = 0 THEN [isValid |-> FALSE]
  ELSE validatePaymentsRules(totalAmount, payments, mode)

validatePayments(totalAmount, payments, mode) ==
  IF Len(payments) = 0 THEN [isValid |-> FALSE, error |-> "No payments provided"]
  ELSE validatePaymentsRules(totalAmount, payments, mode)

(***************************************************************************)
(* calculateDebts.  balances is a JavaScript object used as a map: here a  *)
(* sequence of <<key, value>> pairs in the order the keys were first       *)
(* written, which is the order Object.entries lists them in (the userIds   *)
(* of the model are names, not array indices).                             *)
(***************************************************************************)
HasKey(balances, key) == \E i \in 1..Len(balances) : balances[i][1] = key

\* balances[key] ?? 0
BalanceOr0(balances, key) ==
  IF HasKey(balances, key)
  THEN balances[CHOOSE i \in 1..Len(balances) : balances[i][1] = key][2]
  ELSE Zero

\* balances[key] = value
SetBalance(balances, key, value) ==
  IF HasKey(balances, key)
  THEN [i \in 1..Len(balances) |->
          IF balances[i][1] = key THEN <<key, value>> ELSE balances[i]]
  ELSE Append(balances, <<key, value>>)

\* splits.forEach: balances[userId] = (balances[userId] ?? 0) - amount
RECURSIVE SubtractSplits(_, _)
SubtractSplits(balances, splits) ==
  IF splits = <<>> THEN balances
  ELSE LET split == Head(splits) IN
       SubtractSplits(
         SetBalance(balances, split.userId,
                    FSub(BalanceOr0(balances, split.userId), AmountOf(split))),
         Tail(splits))

\* payments.forEach: balances[userId] = (balances[userId] ?? 0) + amount
RECURSIVE AddPayments(_, _)
AddPayments(balances, payments) ==
  IF payments = <<>> THEN balances
  ELSE LET payment == Head(payments) IN
       AddPayments(
         SetBalance(balances, payment.userId,
                    FAdd(BalanceOr0(balances, payment.userId), AmountOf(payment))),
         Tail(payments))

\* the balances when the settlement starts
Balances(splits, payments) == AddPayments(SubtractSplits(<<>>, splits), payments)

IsCreditor(entry) == FGt(entry[2], Tolerance)

IsDebtor(entry) == FLt(entry[2], FNeg(Tolerance))

Creditors(balances) == SelectSeq(balances, IsCreditor)

Debtors(balances) == SelectSeq(balances, IsDebtor)

\* a settlement that pays the whole remaining debt to the creditor at hand
SettleWholeDebt(remainingDebt, creditAmount) == remainingDebt

\* a settlement that forgets what the debtor has paid already
SameRemainingDebt(remainingDebt, settleAmount) == remainingDebt

\* Math.min(remainingDebt, creditAmount)
SettleAmount(remainingDebt, creditAmount) == MathMin(remainingDebt, creditAmount)

\* remainingDebt -= settleAmount
NextRemainingDebt(remainingDebt, settleAmount) == FSub(remainingDebt, settleAmount)

\* The creditors.forEach of one debtor.  st holds the locals the callback
\* writes: remainingDebt, debts and balances.  creditAmount is the entry's
\* value as Object.entries copied it before the settlement started.
RECURSIVE SettleDebtor(_, _, _)
SettleDebtor(debtor, creditors, st) ==
  IF creditors = <<>> THEN st
  ELSE LET creditor     == Head(creditors)[1]
           creditAmount == Head(creditors)[2]
           settleAmount == SettleAmount(st.remainingDebt, creditAmount)
       IN  IF FGt(st.remainingDebt, Tolerance) /\ FGt(creditAmount, Tolerance)
           THEN SettleDebtor(debtor, Tail(creditors),
                  [remainingDebt |-> NextRemainingDebt(st.remainingDebt, settleAmount),
                   debts    |-> Append(st.debts,
                                  [from |-> debtor, to |-> creditor,
                                   amount |-> settleAmount]),
                   balances |-> SetBalance(st.balances, creditor,
                                  FSub(BalanceOr0(st.balances, creditor),
                                       settleAmount))])
           ELSE SettleDebtor(debtor, Tail(creditors), st)

\* The debtors.forEach.  st holds debts and balances.
RECURSIVE SettleAll(_, _, _)
SettleAll(debtors, creditors, st) ==
  IF debtors = <<>> THEN st
  ELSE LET done == SettleDebtor(Head(debtors)[1], creditors,
                     [remainingDebt |-> MathAbs(Head(debtors)[2]),
                      debts |-> st.debts, balances |-> st.balances])
       IN  SettleAll(Tail(debtors), creditors,
                     [debts |-> done.debts, balances |-> done.balances])

KeptDebt(debt) == FGt(debt.amount, Tolerance)

calculateDebts(splits, payments) ==
  LET balances  == Balances(splits, payments)
      creditors == Creditors(balances)
      debtors   == Debtors(balances)
      settled   == SettleAll(debtors, creditors, [debts |-> <<>>, balances |-> balances])
  IN  SelectSeq(settled.debts, KeptDebt)

(***************************************************************************)
(* The state: the arguments of one call and what it returned.              *)
(***************************************************************************)
VARIABLES
  totalAmount,   \* the totalAmount argument (a number)
  splits,        \* the splits argument
  payments,      \* the payments argument
  called,        \* the function that was called, "none" before the call
  mode,          \* the mode argument of a validator call
  result,        \* what the call returned
  dataAmount,    \* the amount field (a string) of a createExpenseSchema input
  participantIds, \* the participantIds argument of calculateEqualSplits
  history,       \* what the caller knows of the earlier calls
  db,            \* the tables of the database the routers work on
  requests,      \* the router calls in flight, each with its position
  now            \* the server's clock, in days

vars == <<totalAmount, splits, payments, called, mode, result,
          dataAmount, participantIds, history, db, requests, now>>

\* the routers are not part of a call of the utility functions
NoServer == db = <<>> /\ requests = <<>> /\ now = 0

ParticipantIds == <<"alice", "bob", "charlie", "dave">>

SplitModes == {"equal", "percentage", "custom"}

PaymentModes == {"single", "percentage", "custom"}

\* an optional field is a sequence of no or one value
Item(userId, amount, percentage) ==
  CASE amount = <<>> /\ percentage = <<>> -> [userId |-> userId]
    [] amount # <<>> /\ percentage = <<>> -> [userId |-> userId, amount |-> amount[1]]
    [] amount = <<>> /\ percentage # <<>> ->
         [userId |-> userId, percentage |-> percentage[1]]
    [] OTHER ->
         [userId |-> userId, amount |-> amount[1], percentage |-> percentage[1]]

(***************************************************************************)
(* The validators' inputs: lists of up to MaxItems items, the i-th of the  *)
(* i-th participant, against three totals.  The values sit on both sides   *)
(* of the tolerance: sums that hit the total, sums one hundredth away and  *)
(* sums far away; an amount that is no number; absent fields.              *)
(***************************************************************************)
MaxItems == 2

ValidatorTotals == {Num(2), Num(10000), Num(10001)}

ValidatorAmounts == {"0.01", "30.00", "70.00", "100.01", "abc"}

ValidatorPercentages == {Num(1), Num(3000), Num(7000), Num(10001)}

ValidatorShapes ==
  {[amount |-> <<a>>, percentage |-> <<>>] : a \in ValidatorAmounts}
    \cup {[amount |-> <<>>, percentage |-> <<p>>] : p \in ValidatorPercentages}
    \cup {[amount |-> <<>>, percentage |-> <<>>],
          [amount |-> <<"30.00">>, percentage |-> <<Num(7000)>>]}

ValidatorLists ==
  UNION {{[i \in 1..n |-> Item(ParticipantIds[i], sh[i].amount, sh[i].percentage)] :
            sh \in [1..n -> ValidatorShapes]} : n \in 0..MaxItems}

InitValidators ==
  /\ totalAmount \in ValidatorTotals
  /\ \/ splits \in ValidatorLists /\ payments = <<>>
     \/ splits = <<>> /\ payments \in ValidatorLists
  /\ called = "none"
  /\ mode = ""
  /\ result = <<>>
  /\ dataAmount = ""
  /\ participantIds = <<>>
  /\ history = <<>>
  /\ NoServer

CallValidateSplits ==
  /\ called = "none"
  /\ \E m \in SplitModes :
       /\ mode' = m
       /\ result' = validateSplits(totalAmount, splits, m)
  /\ called' = "validateSplits"
  /\ UNCHANGED <<totalAmount, splits, payments, dataAmount, participantIds, history, db, requests, now>>

CallValidatePayments ==
  /\ called = "none"
  /\ \E m \in PaymentModes :
       /\ mode' = m
       /\ result' = validatePayments(totalAmount, payments, m)
  /\ called' = "validatePayments"
  /\ UNCHANGED <<totalAmount, splits, payments, dataAmount, participantIds, history, db, requests, now>>

NextValidators == CallValidateSplits \/ CallValidatePayments

SpecValidators == InitValidators /\ [][NextValidators]_vars

(***************************************************************************)
(* calculateDebts' inputs: up to MaxEntries splits and payments together.  *)
(* calculateDebts reads a userId only to compare it with others, so the    *)
(* participants are named in the order of their first appearance (splits,  *)
(* then payments): every other input is one of these with the             *)
(* participants renamed.  The amounts make balances of 0.01 and 0.02,      *)
(* equal debts and credits, and a credit of 100.01 - 100.                  *)
(***************************************************************************)
MaxEntries == 4

DebtSplitAmounts == {"0.02", "100.00"}

DebtPaymentAmounts == {"0.01", "100.00", "100.01", "abc"}

\* who holds each position: no participant before all those named before it
FirstAppearanceOrders(n) ==
  {p \in [1..n -> 1..Len(ParticipantIds)] :
     \A i \in 1..n : p[i] = 1 \/ \E j \in 1..(i - 1) : p[j] = p[i] \/ p[j] = p[i] - 1}

InitDebts ==
  /\ \E n \in 0..MaxEntries :
       \E ns \in 0..n, who \in FirstAppearanceOrders(n) :
         \E sa \in [1..ns -> DebtSplitAmounts],
            pa \in [1..(n - ns) -> DebtPaymentAmounts] :
           /\ splits = [i \in 1..ns |-> Item(ParticipantIds[who[i]], <<sa[i]>>, <<>>)]
           /\ payments = [i \in 1..(n - ns) |->
                            Item(ParticipantIds[who[ns + i]], <<pa[i]>>, <<>>)]
  /\ totalAmount = Zero
  /\ called = "none"
  /\ mode = ""
  /\ result = <<>>
  /\ dataAmount = ""
  /\ participantIds = <<>>
  /\ history = <<>>
  /\ NoServer

CallCalculateDebts ==
  /\ called = "none"
  /\ result' = calculateDebts(splits, payments)
  /\ called' = "calculateDebts"
  /\ UNCHANGED <<totalAmount, splits, payments, mode, dataAmount, participantIds, history, db, requests, now>>

NextDebts == CallCalculateDebts

SpecDebts == InitDebts /\ [][NextDebts]_vars

(***************************************************************************)
(* calculateDebts on participants who paid a hundredth more or less than   *)
(* they owe: the same lists with the amounts 100.00 and 100.01 on both     *)
(* sides.                                                                  *)
(***************************************************************************)
NearBalanceAmounts == {"100.00", "100.01"}

InitDebtsNearBalance ==
  /\ \E n \in 0..MaxEntries :
       \E ns \in 0..n, who \in FirstAppearanceOrders(n) :
         \E sa \in [1..ns -> NearBalanceAmounts],
            pa \in [1..(n - ns) -> NearBalanceAmounts] :
           /\ splits = [i \in 1..ns |-> Item(ParticipantIds[who[i]], <<sa[i]>>, <<>>)]
           /\ payments = [i \in 1..(n - ns) |->
                            Item(ParticipantIds[who[ns + i]], <<pa[i]>>, <<>>)]
  /\ totalAmount = Zero
  /\ called = "none"
  /\ mode = ""
  /\ result = <<>>
  /\ dataAmount = ""
  /\ participantIds = <<>>
  /\ history = <<>>
  /\ NoServer

SpecDebtsNearBalance == InitDebtsNearBalance /\ [][NextDebts]_vars

(***************************************************************************)
(* calculateDebts called again and again by one caller.  history records,  *)
(* for every call, the two lists as they were handed over, the two lists   *)
(* as the caller finds them afterwards, and the list returned.  The        *)
(* function keeps nothing between calls: balances and debts are created    *)
(* anew in every call, and splits.forEach and payments.forEach only read   *)
(* the entries.                                                            *)
(***************************************************************************)
MaxCalls == 3

RepeatedSplits ==
  { <<>>,
    <<Item("alice", <<"100.00">>, <<>>)>>,
    <<Item("alice", <<"100.00">>, <<>>), Item("bob", <<"100.00">>, <<>>)>> }

RepeatedPayments ==
  { <<>>,
    <<Item("alice", <<"100.01">>, <<>>)>>,
    <<Item("charlie", <<"100.00">>, <<>>), Item("dave", <<"100.00">>, <<>>)>> }

\* a list that the call has taken its entries out of
ArgumentEmptied(list) == <<>>

\* a list handed to calculateDebts, as it is after the call
ArgumentAfterCall(list) == list

InitDebtsRepeated ==
  /\ splits \in RepeatedSplits
  /\ payments \in RepeatedPayments
  /\ totalAmount = Zero
  /\ called = "none"
  /\ mode = ""
  /\ result = <<>>
  /\ dataAmount = ""
  /\ participantIds = <<>>
  /\ history = <<>>
  /\ NoServer

CallCalculateDebtsAgain ==
  /\ called = "none"
  /\ Len(history) < MaxCalls
  /\ result' = calculateDebts(splits, payments)
  /\ splits' = ArgumentAfterCall(splits)
  /\ payments' = ArgumentAfterCall(payments)
  /\ history' = Append(history, [splits        |-> splits,
                                 payments      |-> payments,
                                 splitsAfter   |-> splits',
                                 paymentsAfter |-> payments',
                                 debts         |-> result'])
  /\ called' = "calculateDebts"
  /\ UNCHANGED <<totalAmount, mode, dataAmount, participantIds, db, requests, now>>

\* the caller takes the lists for its next call
ChooseArguments ==
  /\ called = "calculateDebts"
  /\ Len(history) < MaxCalls
  /\ splits' \in RepeatedSplits
  /\ payments' \in RepeatedPayments
  /\ called' = "none"
  /\ UNCHANGED <<totalAmount, mode, result, dataAmount, participantIds, history, db, requests, now>>

NextDebtsRepeated == CallCalculateDebtsAgain \/ ChooseArguments

SpecDebtsRepeated == InitDebtsRepeated /\ [][NextDebtsRepeated]_vars

(***************************************************************************)
(* The refinement of createExpenseSchema (routers/expense.ts): the check   *)
(* the server applies to the input of expense.create once its fields have  *)
(* the right types.  An absent list is the empty one: both are skipped.    *)
(***************************************************************************)
\* if (data.splits && data.splits.length > 0) { ... }
SplitsRefined(data) ==
  LET parsedAmount == parseFloat(data.amount) IN
  IF Len(data.splits) > 0
  THEN IF data.splitMode = "percentage"
       THEN ~Off(SumPercentages(data.splits), Hundred)
       ELSE IF data.splitMode = "custom"
       THEN ~Off(SumAmounts(data.splits), parsedAmount)
       ELSE TRUE
  ELSE TRUE

\* if (data.payments && data.payments.length > 0) { ... }
PaymentsRefined(data) ==
  LET parsedAmount == parseFloat(data.amount) IN
  IF Len(data.payments) > 0
  THEN IF data.paymentMode = "percentage"
       THEN ~Off(SumPercentages(data.payments), Hundred)
       ELSE IF data.paymentMode = "custom"
       THEN ~Off(SumAmounts(data.payments), parsedAmount)
       ELSE TRUE
  ELSE TRUE

\* the function given to .refine: TRUE when the input is accepted
Refinement(data) == SplitsRefined(data) /\ PaymentsRefined(data)

\* The inputs: lists of up to MaxItems items, each with an amount and a
\* percentage that alone make up the whole, with a hundredth in both, or
\* with an amount that is no number.
SchemaAmounts == {"100.00", "100.01"}

SchemaShapes ==
  {[amount |-> <<"100.00">>, percentage |-> <<Num(10000)>>],
   [amount |-> <<"0.01">>, percentage |-> <<Num(1)>>],
   [amount |-> <<"abc">>, percentage |-> <<>>]}

SchemaLists ==
  UNION {{[i \in 1..n |-> Item(ParticipantIds[i], sh[i].amount, sh[i].percentage)] :
            sh \in [1..n -> SchemaShapes]} : n \in 0..MaxItems}

InitSchema ==
  /\ dataAmount \in SchemaAmounts
  /\ splits \in SchemaLists
  /\ payments \in SchemaLists
  /\ totalAmount = Zero
  /\ called = "none"
  /\ mode = ""
  /\ result = <<>>
  /\ participantIds = <<>>
  /\ history = <<>>
  /\ NoServer

\* createExpenseSchema is applied; mode holds <<splitMode, paymentMode>>
ParseCreateExpense ==
  /\ called = "none"
  /\ \E sm \in SplitModes, pm \in PaymentModes :
       /\ mode' = <<sm, pm>>
       /\ result' = Refinement([amount |-> dataAmount, splitMode |-> sm,
                                paymentMode |-> pm, splits |-> splits,
                                payments |-> payments])
  /\ called' = "createExpenseSchema"
  /\ UNCHANGED <<totalAmount, splits, payments, dataAmount, participantIds, history, db, requests, now>>

NextSchema == ParseCreateExpense

SpecSchema == InitSchema /\ [][NextSchema]_vars

(***************************************************************************)
(* The calculators' inputs: a total and either up to MaxIds participant    *)
(* ids, in any order and with repetitions, or up to MaxItems splits with   *)
(* whole, fractional, zero and missing percentages.  The totals make       *)
(* quotients that end in a third and quotients halfway between two         *)
(* hundredths.                                                             *)
(***************************************************************************)
MaxIds == 3

CalculatorTotals == {Num(5), Num(15), Num(1000), Num(10000), Num(10001)}

IdLists == UNION {[1..n -> {ParticipantIds[i] : i \in 1..3}] : n \in 0..MaxIds}

CalculatorShapes ==
  {[amount |-> <<>>, percentage |-> <<Num(5000)>>],
   [amount |-> <<>>, percentage |-> <<Num(3333)>>],
   [amount |-> <<"5.00">>, percentage |-> <<Num(6000)>>],
   [amount |-> <<"5.00">>, percentage |-> <<Zero>>],
   [amount |-> <<"5.00">>, percentage |-> <<>>],
   [amount |-> <<>>, percentage |-> <<>>]}

CalculatorLists ==
  UNION {{[i \in 1..n |-> Item(ParticipantIds[i], sh[i].amount, sh[i].percentage)] :
            sh \in [1..n -> CalculatorShapes]} : n \in 0..MaxItems}

InitCalculators ==
  /\ totalAmount \in CalculatorTotals
  /\ \/ participantIds \in IdLists /\ splits = <<>>
     \/ participantIds = <<>> /\ splits \in CalculatorLists
  /\ payments = <<>>
  /\ called = "none"
  /\ mode = ""
  /\ result = <<>>
  /\ dataAmount = ""
  /\ history = <<>>
  /\ NoServer

CallCalculateEqualSplits ==
  /\ called = "none"
  /\ result' = calculateEqualSplits(totalAmount, participantIds)
  /\ called' = "calculateEqualSplits"
  /\ UNCHANGED <<totalAmount, splits, payments, mode, dataAmount, participantIds, history, db, requests, now>>

CallCalculatePercentageSplits ==
  /\ called = "none"
  /\ result' = calculatePercentageSplits(totalAmount, splits)
  /\ called' = "calculatePercentageSplits"
  /\ UNCHANGED <<totalAmount, splits, payments, mode, dataAmount, participantIds, history, db, requests, now>>

NextCalculators == CallCalculateEqualSplits \/ CallCalculatePercentageSplits

SpecCalculators == InitCalculators /\ [][NextCalculators]_vars

(***************************************************************************)
(* expenseRouter (routers/expense.ts) over the tables of the schema.  A    *)
(* table is the sequence of its rows in the order they were inserted; no   *)
(* table has a unique index or a foreign key, so a statement touches the   *)
(* rows its where clause names and no others.  Of an expense row the model *)
(* keeps id, amount, splitMode and paymentMode: title, currency, category, *)
(* description, date, userId and groupId are carried the way amount is.    *)
(* The amounts of the model are written with two decimals, which is how    *)
(* the numeric(10, 2) columns hand them back.                              *)
(***************************************************************************)
EmptyExpenseTables ==
  [expenses        |-> <<>>,
   expenseSplits   |-> <<>>,
   expensePayments |-> <<>>,
   expenseHistory  |-> <<>>,
   expenseComments |-> <<>>,
   expenseSeq      |-> 0]     \* the last id the identity column gave out

\* a string is truthy unless it is empty
TruthyString(field) == field # ""

\* lines 116-135 and 293-312: the row of one split
SplitRecord(expenseId, splitMode, parsedAmount, count, split) ==
  LET splitAmount ==
        IF splitMode = "equal"
        THEN toFixed(FDiv(parsedAmount, FromInt(count)), 2)
        ELSE IF splitMode = "percentage" /\ HasTruthyPercentage(split)
        THEN toFixed(FDiv(FMul(parsedAmount, split.percentage), Hundred), 2)
        ELSE IF HasAmount(split) /\ TruthyString(split.amount)
        THEN split.amount
        ELSE "0.00"
  IN  IF HasPercentage(split)
      THEN [expenseId |-> expenseId, userId |-> split.userId,
            amount |-> splitAmount, percentage |-> split.percentage]
      ELSE [expenseId |-> expenseId, userId |-> split.userId,
            amount |-> splitAmount]

\* lines 145-164 and 328-347: the row of one payment
PaymentRecord(expenseId, paymentMode, amount, parsedAmount, payment) ==
  LET paymentAmount ==
        IF paymentMode = "single"
        THEN amount
        ELSE IF paymentMode = "percentage" /\ HasTruthyPercentage(payment)
        THEN toFixed(FDiv(FMul(parsedAmount, payment.percentage), Hundred), 2)
        ELSE IF HasAmount(payment) /\ TruthyString(payment.amount)
        THEN payment.amount
        ELSE "0.00"
  IN  IF HasPercentage(payment)
      THEN [expenseId |-> expenseId, userId |-> payment.userId,
            amount |-> paymentAmount, percentage |-> payment.percentage]
      ELSE [expenseId |-> expenseId, userId |-> payment.userId,
            amount |-> paymentAmount]

\* input.splits.map(...)
SplitRecords(expenseId, splitMode, amount, list) ==
  LET parsedAmount == parseFloat(amount) IN
  [i \in 1..Len(list) |->
     SplitRecord(expenseId, splitMode, parsedAmount, Len(list), list[i])]

\* input.payments.map(...)
PaymentRecords(expenseId, paymentMode, amount, list) ==
  LET parsedAmount == parseFloat(amount) IN
  [i \in 1..Len(list) |->
     PaymentRecord(expenseId, paymentMode, amount, parsedAmount, list[i])]

\* the statements of the handlers, each a function of the tables
InsertExpense(tables, input) ==
  [tables EXCEPT
     !.expenseSeq = @ + 1,
     !.expenses = Append(@, [id          |-> tables.expenseSeq + 1,
                             amount      |-> input.amount,
                             splitMode   |-> input.splitMode,
                             paymentMode |-> input.paymentMode])]

InsertSplits(tables, records) ==
  [tables EXCEPT !.expenseSplits = @ \o records]

InsertPayments(tables, records) ==
  [tables EXCEPT !.expensePayments = @ \o records]

InsertHistory(tables, expenseId, changeType) ==
  [tables EXCEPT !.expenseHistory =
     Append(@, [expenseId |-> expenseId, changeType |-> changeType])]

InsertComment(tables, expenseId) ==
  [tables EXCEPT !.expenseComments = Append(@, [expenseId |-> expenseId])]

\* a delete that leaves the rows where they are
KeepRows(table, expenseId) == table

\* delete(table).where(eq(table.expenseId, expenseId))
DeleteRows(table, expenseId) ==
  SelectSeq(table, LAMBDA row : row.expenseId # expenseId)

DeleteSplits(tables, expenseId) ==
  [tables EXCEPT !.expenseSplits = DeleteRows(@, expenseId)]

DeletePayments(tables, expenseId) ==
  [tables EXCEPT !.expensePayments = DeleteRows(@, expenseId)]

DeleteComments(tables, expenseId) ==
  [tables EXCEPT !.expenseComments = DeleteRows(@, expenseId)]

DeleteExpense(tables, expenseId) ==
  [tables EXCEPT !.expenses = SelectSeq(@, LAMBDA row : row.id # expenseId)]

\* update(expenses).set(updateData).where(eq(expenses.id, id))
UpdateExpense(tables, expenseId, updateData) ==
  [tables EXCEPT !.expenses =
     [i \in 1..Len(@) |->
        IF @[i].id = expenseId
        THEN [key \in DOMAIN @[i] |->
                IF key \in DOMAIN updateData THEN updateData[key] ELSE @[i][key]]
        ELSE @[i]]]

\* query.expenses.findFirst({ where: eq(expenses.id, id) }): no or one row
FindExpense(tables, expenseId) ==
  LET found == SelectSeq(tables.expenses, LAMBDA row : row.id = expenseId)
  IN  IF found = <<>> THEN <<>> ELSE <<found[1]>>

\* lines 111-138
CreateSplits(tables, expenseId, input) ==
  IF Len(input.splits) > 0
  THEN InsertSplits(tables, SplitRecords(expenseId, input.splitMode, input.amount,
                                         input.splits))
  ELSE tables

\* lines 140-167
CreatePayments(tables, expenseId, input) ==
  IF Len(input.payments) > 0
  THEN InsertPayments(tables, PaymentRecords(expenseId, input.paymentMode,
                                             input.amount, input.payments))
  ELSE tables

\* expenseRouter.create, lines 92-187, for an input the schema accepted
CreateExpense(tables, input) ==
  InsertHistory(
    CreatePayments(
      CreateSplits(InsertExpense(tables, input), tables.expenseSeq + 1, input),
      tables.expenseSeq + 1, input),
    tables.expenseSeq + 1, "created")

\* an optional field of the update input: no or one value
Given(field) == field # <<>>

\* input.field ?? current
OrElse(field, current) == IF Given(field) THEN field[1] ELSE current

\* lines 240-275: the fields of the input that differ from the stored ones
UpdateData(input, currentExpense) ==
  LET changed == {key \in {"amount", "splitMode", "paymentMode"} :
                    Given(input[key]) /\ input[key][1] # currentExpense[key]}
  IN  [key \in changed |-> input[key][1]]

\* the keys of changes
ChangedKeys(input, currentExpense) ==
  DOMAIN UpdateData(input, currentExpense)
    \cup (IF Given(input.splits) THEN {"splits"} ELSE {})
    \cup (IF Given(input.payments) THEN {"payments"} ELSE {})

\* lines 285-318, after the delete
ReinsertSplits(tables, input, currentExpense) ==
  IF Len(input.splits[1]) > 0
  THEN InsertSplits(tables,
         SplitRecords(input.id, OrElse(input.splitMode, currentExpense.splitMode),
                      OrElse(input.amount, currentExpense.amount), input.splits[1]))
  ELSE tables

\* lines 321-353, after the delete
ReinsertPayments(tables, input, currentExpense) ==
  IF Len(input.payments[1]) > 0
  THEN InsertPayments(tables,
         PaymentRecords(input.id,
                        OrElse(input.paymentMode, currentExpense.paymentMode),
                        OrElse(input.amount, currentExpense.amount),
                        input.payments[1]))
  ELSE tables

\* lines 277-283
UpdateFields(tables, input, currentExpense) ==
  IF DOMAIN UpdateData(input, currentExpense) # {}
  THEN UpdateExpense(tables, input.id, UpdateData(input, currentExpense))
  ELSE tables

\* lines 285-318
UpdateSplits(tables, input, currentExpense) ==
  IF Given(input.splits)
  THEN ReinsertSplits(DeleteSplits(tables, input.id), input, currentExpense)
  ELSE tables

\* lines 320-353
UpdatePayments(tables, input, currentExpense) ==
  IF Given(input.payments)
  THEN ReinsertPayments(DeletePayments(tables, input.id), input, currentExpense)
  ELSE tables

\* lines 355-364
UpdateHistory(tables, input, currentExpense) ==
  IF ChangedKeys(input, currentExpense) # {}
  THEN InsertHistory(tables, input.id, "updated")
  ELSE tables

\* expenseRouter.update, lines 224-367, once currentExpense was found
UpdateFound(tables, input, currentExpense) ==
  UpdateHistory(
    UpdatePayments(
      UpdateSplits(UpdateFields(tables, input, currentExpense), input, currentExpense),
      input, currentExpense),
    input, currentExpense)

\* expenseRouter.delete, lines 452-470
DeleteWhole(tables, expenseId) ==
  DeleteExpense(
    DeleteComments(
      DeletePayments(
        DeleteSplits(InsertHistory(tables, expenseId, "deleted"), expenseId),
        expenseId),
      expenseId),
    expenseId)

(***************************************************************************)
(* The expense router called by one client, one call after the other.     *)
(* result holds what the last call was given and how it ended; history     *)
(* holds, for every expense that was created, the split rows and payment   *)
(* rows that the latest call which supplied them asked for (none once the  *)
(* expense is deleted).                                                    *)
(***************************************************************************)
MaxHistory == 3

ExpenseIds == 1..(db.expenseSeq + 1)   \* the ids given out, and one that was not

HalfOf(userId) == Item(userId, <<"50.00">>, <<Num(5000)>>)

ExpenseSplitLists ==
  {<<HalfOf("alice"), HalfOf("bob")>>, <<HalfOf("alice"), HalfOf("alice")>>}

ExpensePaymentLists == {<<HalfOf("alice")>>, <<HalfOf("alice"), HalfOf("bob")>>}

CreateInputs ==
  [amount      : {"100.00"},
   splitMode   : SplitModes,
   paymentMode : {"single", "custom"},
   splits      : ExpenseSplitLists,
   payments    : ExpensePaymentLists]

Optional(values) == {<<>>} \cup {<<value>> : value \in values}

UpdateInputs ==
  [amount      : Optional({"50.00"}),
   splitMode   : Optional({"percentage"}),
   paymentMode : {<<>>},
   splits      : Optional({<<>>, <<HalfOf("alice"), HalfOf("bob")>>}),
   payments    : Optional({<<HalfOf("alice"), HalfOf("bob")>>})]

InitExpenses ==
  /\ db = EmptyExpenseTables
  /\ requests = <<>>
  /\ now = 0
  /\ totalAmount = Zero
  /\ splits = <<>>
  /\ payments = <<>>
  /\ called = "none"
  /\ mode = ""
  /\ result = <<>>
  /\ dataAmount = ""
  /\ participantIds = <<>>
  /\ history = <<>>

\* the history and comment tables hold at most MaxHistory rows together
RoomForARow == Len(db.expenseHistory) + Len(db.expenseComments) < MaxHistory

CreateOf(inputs) ==
  /\ RoomForARow
  /\ \E input \in inputs :
       IF Refinement(input)
       THEN /\ db' = CreateExpense(db, input)
            /\ result' = [outcome |-> "ok"]
            /\ history' =
                 Append(history,
                        [splits   |-> SplitRecords(db.expenseSeq + 1, input.splitMode,
                                                   input.amount, input.splits),
                         payments |-> PaymentRecords(db.expenseSeq + 1,
                                                     input.paymentMode, input.amount,
                                                     input.payments)])
       ELSE /\ result' = [outcome |-> "Splits and payments must add up to the total amount or 100%"]
            /\ UNCHANGED <<db, history>>
  /\ called' = "expense.create"
  /\ UNCHANGED <<totalAmount, splits, payments, mode, dataAmount, participantIds,
                 requests, now>>

UpdateOf(inputs) ==
  /\ RoomForARow
  /\ \E id \in ExpenseIds, fields \in inputs :
       LET input == [id          |-> id,
                     amount      |-> fields.amount,
                     splitMode   |-> fields.splitMode,
                     paymentMode |-> fields.paymentMode,
                     splits      |-> fields.splits,
                     payments    |-> fields.payments]
           found == FindExpense(db, input.id)
       IN
       IF found = <<>>
       THEN /\ result' = [outcome |-> "Expense not found"]
            /\ UNCHANGED <<db, history>>
       ELSE LET currentExpense == found[1] IN
            /\ db' = UpdateFound(db, input, currentExpense)
            /\ result' = [outcome  |-> "ok",
                          supplied |-> Given(input.splits) \/ Given(input.payments)]
            /\ history' =
                 [history EXCEPT
                    ![input.id] =
                       [splits |->
                          IF Given(input.splits)
                          THEN SplitRecords(input.id,
                                 OrElse(input.splitMode, currentExpense.splitMode),
                                 OrElse(input.amount, currentExpense.amount),
                                 input.splits[1])
                          ELSE @.splits,
                        payments |->
                          IF Given(input.payments)
                          THEN PaymentRecords(input.id,
                                 OrElse(input.paymentMode, currentExpense.paymentMode),
                                 OrElse(input.amount, currentExpense.amount),
                                 input.payments[1])
                          ELSE @.payments]]
  /\ called' = "expense.update"
  /\ UNCHANGED <<totalAmount, splits, payments, mode, dataAmount, participantIds,
                 requests, now>>

Delete ==
  /\ RoomForARow
  /\ \E id \in ExpenseIds :
       /\ db' = DeleteWhole(db, id)
       /\ result' = [outcome |-> "ok"]
       /\ history' = [i \in 1..Len(history) |->
                        IF i = id THEN [splits |-> <<>>, payments |-> <<>>]
                        ELSE history[i]]
  /\ called' = "expense.delete"
  /\ UNCHANGED <<totalAmount, splits, payments, mode, dataAmount, participantIds,
                 requests, now>>

\* expenseRouter.addComment, lines 490-509
AddComment ==
  /\ RoomForARow
  /\ \E id \in ExpenseIds :
       /\ db' = InsertComment(db, id)
       /\ result' = [outcome |-> "ok"]
  /\ called' = "expense.addComment"
  /\ UNCHANGED <<totalAmount, splits, payments, mode, dataAmount, participantIds,
                 history, requests, now>>

Create == CreateOf(CreateInputs)

Update == UpdateOf(UpdateInputs)

NextExpenses == Create \/ Update \/ Delete \/ AddComment

SpecExpenses == InitExpenses /\ [][NextExpenses]_vars

(***************************************************************************)
(* The same router with fewer inputs: an expense is created with no or two *)
(* splits and one payment, and an update may change the amount, empty or   *)
(* replace the splits and replace the payments.                            *)
(***************************************************************************)
FewCreateInputs ==
  [amount      : {"100.00"},
   splitMode   : {"equal", "custom"},
   paymentMode : {"single"},
   splits      : {<<>>, <<HalfOf("alice"), HalfOf("bob")>>},
   payments    : {<<HalfOf("alice")>>}]

FewUpdateInputs ==
  [amount      : Optional({"50.00"}),
   splitMode   : {<<>>},
   paymentMode : {<<>>},
   splits      : Optional({<<>>, <<HalfOf("alice"), HalfOf("alice")>>}),
   payments    : Optional({<<HalfOf("alice"), HalfOf("bob")>>})]

CreateFew == CreateOf(FewCreateInputs)

UpdateFew == UpdateOf(FewUpdateInputs)

NextExpenseRows == CreateFew \/ UpdateFew \/ Delete \/ AddComment

SpecExpenseRows == InitExpenses /\ [][NextExpenseRows]_vars

(***************************************************************************)
(* Two update calls in flight.  The handler awaits every statement it      *)
(* sends to the database and nothing groups them into a transaction, so    *)
(* the statements of two calls reach the database in any interleaving.     *)
(* A call in flight is its input, the statement it sends next and the      *)
(* expense it found.                                                       *)
(***************************************************************************)
\* the awaited statements of expenseRouter.update, in the order of the code
UpdateStatements ==
  <<"findFirst", "updateExpense", "deleteSplits", "insertSplits",
    "deletePayments", "insertPayments", "insertHistory">>

\* the condition the code puts around the k-th statement
Due(input, currentExpense, k) ==
  CASE k = 2 -> DOMAIN UpdateData(input, currentExpense) # {}
    [] k = 3 -> Given(input.splits)
    [] k = 4 -> Given(input.splits) /\ Len(input.splits[1]) > 0
    [] k = 5 -> Given(input.payments)
    [] k = 6 -> Given(input.payments) /\ Len(input.payments[1]) > 0
    [] k = 7 -> ChangedKeys(input, currentExpense) # {}
    [] OTHER -> FALSE

\* the statement the handler reaches after its k-th one
After(input, currentExpense, k) ==
  LET later == {j \in (k + 1)..Len(UpdateStatements) : Due(input, currentExpense, j)}
  IN  IF later = {} THEN "returned"
      ELSE UpdateStatements[CHOOSE j \in later : \A other \in later : j <= other]

\* request r has sent its k-th statement
Advance(r, k) ==
  [requests EXCEPT
     ![r].pc = After(requests[r].input, requests[r].currentExpense, k)]

At(r, statement) == requests[r].pc = statement

\* the split records request r inserts
RequestSplitRecords(request) ==
  SplitRecords(request.input.id,
               OrElse(request.input.splitMode, request.currentExpense.splitMode),
               OrElse(request.input.amount, request.currentExpense.amount),
               request.input.splits[1])

Idle ==
  UNCHANGED <<totalAmount, splits, payments, called, mode, result, dataAmount,
              participantIds, history, now>>

\* lines 226-238
FindCurrentExpense ==
  \E r \in 1..Len(requests) :
    /\ At(r, "findFirst")
    /\ LET found == FindExpense(db, requests[r].input.id) IN
       requests' =
         IF found = <<>>
         THEN [requests EXCEPT ![r].pc = "Expense not found"]
         ELSE [requests EXCEPT
                 ![r].currentExpense = found[1],
                 ![r].pc = After(requests[r].input, found[1], 1)]
    /\ UNCHANGED db
    /\ Idle

\* lines 277-283
SendUpdateExpense ==
  \E r \in 1..Len(requests) :
    /\ At(r, "updateExpense")
    /\ db' = UpdateExpense(db, requests[r].input.id,
                           UpdateData(requests[r].input, requests[r].currentExpense))
    /\ requests' = Advance(r, 2)
    /\ Idle

\* line 288
SendDeleteSplits ==
  \E r \in 1..Len(requests) :
    /\ At(r, "deleteSplits")
    /\ db' = DeleteSplits(db, requests[r].input.id)
    /\ requests' = Advance(r, 3)
    /\ Idle

\* lines 291-315
SendInsertSplits ==
  \E r \in 1..Len(requests) :
    /\ At(r, "insertSplits")
    /\ db' = ReinsertSplits(db, requests[r].input, requests[r].currentExpense)
    /\ requests' = Advance(r, 4)
    /\ Idle

\* line 323
SendDeletePayments ==
  \E r \in 1..Len(requests) :
    /\ At(r, "deletePayments")
    /\ db' = DeletePayments(db, requests[r].input.id)
    /\ requests' = Advance(r, 5)
    /\ Idle

\* lines 326-350
SendInsertPayments ==
  \E r \in 1..Len(requests) :
    /\ At(r, "insertPayments")
    /\ db' = ReinsertPayments(db, requests[r].input, requests[r].currentExpense)
    /\ requests' = Advance(r, 6)
    /\ Idle

\* lines 356-364
SendInsertHistory ==
  \E r \in 1..Len(requests) :
    /\ At(r, "insertHistory")
    /\ db' = InsertHistory(db, requests[r].input.id, "updated")
    /\ requests' = Advance(r, 7)
    /\ Idle

\* the expense the two calls are about: 100.00 split in halves
RaceExpense ==
  [amount      |-> "100.00",
   splitMode   |-> "custom",
   paymentMode |-> "custom",
   splits      |-> <<HalfOf("alice"), HalfOf("bob")>>,
   payments    |-> <<HalfOf("alice"), HalfOf("bob")>>]

\* update inputs that supply a split list
RaceInputs ==
  [id          : {1},
   amount      : Optional({"50.00"}),
   splitMode   : {<<>>},
   paymentMode : {<<>>},
   splits      : {<< <<>> >>, << <<HalfOf("alice")>> >>,
                  << <<HalfOf("bob"), HalfOf("carol")>> >>},
   payments    : Optional({<<HalfOf("carol")>>})]

InFlight(input) == [input |-> input, pc |-> "findFirst", currentExpense |-> <<>>]

InitUpdateRace ==
  /\ db = CreateExpense(EmptyExpenseTables, RaceExpense)
  /\ \E first \in RaceInputs, second \in RaceInputs :
       requests = <<InFlight(first), InFlight(second)>>
  /\ now = 0
  /\ totalAmount = Zero
  /\ splits = <<>>
  /\ payments = <<>>
  /\ called = "none"
  /\ mode = ""
  /\ result = <<>>
  /\ dataAmount = ""
  /\ participantIds = <<>>
  /\ history = <<>>

NextUpdateRace ==
  \/ FindCurrentExpense
  \/ SendUpdateExpense
  \/ SendDeleteSplits
  \/ SendInsertSplits
  \/ SendDeletePayments
  \/ SendInsertPayments
  \/ SendInsertHistory

SpecUpdateRace == InitUpdateRace /\ [][NextUpdateRace]_vars

(***************************************************************************)
(* The groups router.  group_memberships and group_invitations are         *)
(* sequences of rows in insertion order; neither table has a unique index. *)
(* A handler is an operator from the tables and its input to the tables it *)
(* leaves and its outcome: "ok" or the message of the error it throws.     *)
(***************************************************************************)
EmptyGroupTables ==
  [groupMemberships |-> <<>>, groupInvitations |-> <<>>,
   groupSeq |-> 0, invitationSeq |-> 0]

Outcome(tables, outcome) == [tables |-> tables, outcome |-> outcome]

\* findFirst on group_memberships by group and user: no or one row
FindMembership(tables, groupId, userId) ==
  LET found == SelectSeq(tables.groupMemberships,
                         LAMBDA row : row.groupId = groupId /\ row.userId = userId)
  IN  IF found = <<>> THEN <<>> ELSE <<found[1]>>

\* findFirst on group_memberships by group, user and role admin
FindAdminMembership(tables, groupId, userId) ==
  LET found == SelectSeq(tables.groupMemberships,
                         LAMBDA row : /\ row.groupId = groupId
                                      /\ row.userId = userId
                                      /\ row.role = "admin")
  IN  IF found = <<>> THEN <<>> ELSE <<found[1]>>

\* findMany on group_memberships by group and role admin
FindAllAdmins(tables, groupId) ==
  SelectSeq(tables.groupMemberships,
            LAMBDA row : row.groupId = groupId /\ row.role = "admin")

InsertMembership(tables, groupId, userId, role) ==
  [tables EXCEPT !.groupMemberships =
     Append(@, [groupId |-> groupId, userId |-> userId, role |-> role])]

DeleteMemberships(tables, groupId, userId) ==
  [tables EXCEPT !.groupMemberships =
     SelectSeq(@, LAMBDA row : ~(row.groupId = groupId /\ row.userId = userId))]

\* update(groupMemberships).set({ role }) where group and user
SetRole(tables, groupId, userId, role) ==
  [tables EXCEPT !.groupMemberships =
     [i \in 1..Len(@) |->
        IF @[i].groupId = groupId /\ @[i].userId = userId
        THEN [@[i] EXCEPT !.role = role]
        ELSE @[i]]]

\* findFirst on group_invitations by group, invited user and status pending
FindPendingInvitation(tables, groupId, invitedUserId) ==
  LET found == SelectSeq(tables.groupInvitations,
                         LAMBDA row : /\ row.groupId = groupId
                                      /\ row.invitedUserId = invitedUserId
                                      /\ row.status = "pending")
  IN  IF found = <<>> THEN <<>> ELSE <<found[1]>>

\* findFirst on group_invitations by id, invited user and status pending
AnyStatus(row) == TRUE

StillPending(row) == row.status = "pending"

FindInvitationToAnswer(tables, invitationId, userId) ==
  LET found == SelectSeq(tables.groupInvitations,
                         LAMBDA row : /\ row.id = invitationId
                                      /\ row.invitedUserId = userId
                                      /\ StillPending(row))
  IN  IF found = <<>> THEN <<>> ELSE <<found[1]>>

\* findFirst on group_invitations by id
FindInvitation(tables, invitationId) ==
  LET found == SelectSeq(tables.groupInvitations,
                         LAMBDA row : row.id = invitationId)
  IN  IF found = <<>> THEN <<>> ELSE <<found[1]>>

InsertInvitation(tables, groupId, invitedUserId, invitedByUserId, expiresAt) ==
  [tables EXCEPT
     !.invitationSeq = @ + 1,
     !.groupInvitations =
        Append(@, [id              |-> tables.invitationSeq + 1,
                   groupId         |-> groupId,
                   invitedUserId   |-> invitedUserId,
                   invitedByUserId |-> invitedByUserId,
                   expiresAt       |-> expiresAt,
                   status          |-> "pending"])]

SetInvitationStatus(tables, invitationId, status) ==
  [tables EXCEPT !.groupInvitations =
     [i \in 1..Len(@) |->
        IF @[i].id = invitationId THEN [@[i] EXCEPT !.status = status] ELSE @[i]]]

DeleteInvitation(tables, invitationId) ==
  [tables EXCEPT !.groupInvitations =
     SelectSeq(@, LAMBDA row : row.id # invitationId)]

\* groupsRouter.create, lines 59-89
CreateGroup(tables, input) ==
  LET groupId == tables.groupSeq + 1
  IN  Outcome(InsertMembership([tables EXCEPT !.groupSeq = groupId],
                               groupId, input.createdBy, "admin"),
              "ok")

\* groupsRouter.addMember, lines 229-271
AddMember(tables, input) ==
  IF FindAdminMembership(tables, input.groupId, input.userId) = <<>>
  THEN Outcome(tables, "Only group admins can add members")
  ELSE IF FindMembership(tables, input.groupId, input.memberUserId) # <<>>
  THEN Outcome(tables, "User is already a member of this group")
  ELSE Outcome(InsertMembership(tables, input.groupId, input.memberUserId, input.role),
               "ok")

\* groupsRouter.removeMember, lines 273-314
RemoveMember(tables, input) ==
  IF /\ FindAdminMembership(tables, input.groupId, input.userId) = <<>>
     /\ input.userId # input.memberUserId
  THEN Outcome(tables, "Only admins can remove members, or members can remove themselves")
  ELSE Outcome(DeleteMemberships(tables, input.groupId, input.memberUserId), "ok")

\* the invitation expires seven days after it is sent (lines 437-438)
InvitationDays == 7

\* groupsRouter.inviteToGroup, lines 388-450, called on day today
InviteToGroup(tables, input, today) ==
  IF FindAdminMembership(tables, input.groupId, input.invitedByUserId) = <<>>
  THEN Outcome(tables, "Only group admins can send invitations")
  ELSE IF FindMembership(tables, input.groupId, input.invitedUserId) # <<>>
  THEN Outcome(tables, "User is already a member of this group")
  ELSE IF FindPendingInvitation(tables, input.groupId, input.invitedUserId) # <<>>
  THEN Outcome(tables, "User already has a pending invitation to this group")
  ELSE Outcome(InsertInvitation(tables, input.groupId, input.invitedUserId,
                                input.invitedByUserId, today + InvitationDays),
               "ok")

\* groupsRouter.respondToInvitation, lines 555-611, called on day today
RespondToInvitation(tables, input, today) ==
  LET found == FindInvitationToAnswer(tables, input.invitationId, input.userId) IN
  IF found = <<>>
  THEN Outcome(tables, "Invitation not found or already responded to")
  ELSE IF today > found[1].expiresAt
  THEN Outcome(SetInvitationStatus(tables, input.invitationId, "expired"),
               "This invitation has expired")
  ELSE LET answered == SetInvitationStatus(tables, input.invitationId, input.response)
       IN  Outcome(IF input.response = "accepted"
                   THEN InsertMembership(answered, found[1].groupId, input.userId, "member")
                   ELSE answered,
                   "ok")

\* groupsRouter.cancelInvitation, lines 632-669
CancelInvitation(tables, input) ==
  LET found == FindInvitation(tables, input.invitationId) IN
  IF found = <<>>
  THEN Outcome(tables, "Invitation not found")
  ELSE IF /\ FindAdminMembership(tables, found[1].groupId, input.userId) = <<>>
          /\ found[1].invitedByUserId # input.userId
  THEN Outcome(tables, "Only group admins or the invitation sender can cancel invitations")
  ELSE Outcome(DeleteInvitation(tables, input.invitationId), "ok")

\* groupsRouter.promoteToAdmin, lines 671-724
PromoteToAdmin(tables, input) ==
  LET memberToPromote == FindMembership(tables, input.groupId, input.memberUserId) IN
  IF FindAdminMembership(tables, input.groupId, input.userId) = <<>>
  THEN Outcome(tables, "Only group admins can promote members")
  ELSE IF memberToPromote = <<>>
  THEN Outcome(tables, "Member not found in this group")
  ELSE IF memberToPromote[1].role = "admin"
  THEN Outcome(tables, "Member is already an admin")
  ELSE Outcome(SetRole(tables, input.groupId, input.memberUserId, "admin"), "ok")

\* groupsRouter.demoteFromAdmin, lines 726-791
DemoteFromAdmin(tables, input) ==
  LET memberToDemote == FindMembership(tables, input.groupId, input.memberUserId) IN
  IF FindAdminMembership(tables, input.groupId, input.userId) = <<>>
  THEN Outcome(tables, "Only group admins can demote members")
  ELSE IF memberToDemote = <<>>
  THEN Outcome(tables, "Member not found in this group")
  ELSE IF memberToDemote[1].role # "admin"
  THEN Outcome(tables, "Member is not an admin")
  ELSE IF /\ Len(FindAllAdmins(tables, input.groupId)) = 1
          /\ input.memberUserId = input.userId
  THEN Outcome(tables, "Cannot demote yourself as the only admin")
  ELSE Outcome(SetRole(tables, input.groupId, input.memberUserId, "member"), "ok")

(***************************************************************************)
(* The groups router, one call after another.  The clock counts days.      *)
(***************************************************************************)
MaxGroups == 1

MaxInvitations == 2

MaxNow == 14

Users == {"alice", "bob"}

Roles == {"admin", "member"}

GroupIds == 1..MaxGroups

InvitationIds == 1..MaxInvitations

InitGroups ==
  /\ db = EmptyGroupTables
  /\ requests = <<>>
  /\ now = 0
  /\ totalAmount = Zero
  /\ splits = <<>>
  /\ payments = <<>>
  /\ called = "none"
  /\ mode = ""
  /\ result = <<>>
  /\ dataAmount = ""
  /\ participantIds = <<>>
  /\ history = <<>>

\* what a handler call leaves unchanged
Served ==
  UNCHANGED <<totalAmount, splits, payments, mode, dataAmount, participantIds,
              history, requests, now>>

GroupsCreate ==
  /\ db.groupSeq < MaxGroups
  /\ \E input \in [createdBy : Users] :
       LET served == CreateGroup(db, input) IN
       /\ db' = served.tables
       /\ result' = [outcome |-> served.outcome]
  /\ called' = "groups.create"
  /\ Served

GroupsAddMember ==
  /\ \E input \in [groupId : GroupIds, userId : Users, memberUserId : Users,
                   role : Roles] :
       LET served == AddMember(db, input) IN
       /\ db' = served.tables
       /\ result' = [outcome |-> served.outcome]
  /\ called' = "groups.addMember"
  /\ Served

GroupsRemoveMember ==
  /\ \E input \in [groupId : GroupIds, userId : Users, memberUserId : Users] :
       LET served == RemoveMember(db, input) IN
       /\ db' = served.tables
       /\ result' = [outcome |-> served.outcome]
  /\ called' = "groups.removeMember"
  /\ Served

GroupsInviteToGroup ==
  /\ db.invitationSeq < MaxInvitations
  /\ \E input \in [groupId : GroupIds, invitedUserId : Users,
                   invitedByUserId : Users] :
       LET served == InviteToGroup(db, input, now) IN
       /\ db' = served.tables
       /\ result' = [outcome |-> served.outcome]
  /\ called' = "groups.inviteToGroup"
  /\ Served

\* the answer keeps the input of the call next to its outcome
GroupsRespondToInvitation ==
  /\ \E input \in [invitationId : InvitationIds, userId : Users,
                   response : {"accepted", "declined"}] :
       LET served == RespondToInvitation(db, input, now) IN
       /\ db' = served.tables
       /\ result' = [outcome |-> served.outcome, input |-> input]
  /\ called' = "groups.respondToInvitation"
  /\ Served

GroupsCancelInvitation ==
  /\ \E input \in [invitationId : InvitationIds, userId : Users] :
       LET served == CancelInvitation(db, input) IN
       /\ db' = served.tables
       /\ result' = [outcome |-> served.outcome]
  /\ called' = "groups.cancelInvitation"
  /\ Served

GroupsPromoteToAdmin ==
  /\ \E input \in [groupId : GroupIds, userId : Users, memberUserId : Users] :
       LET served == PromoteToAdmin(db, input) IN
       /\ db' = served.tables
       /\ result' = [outcome |-> served.outcome]
  /\ called' = "groups.promoteToAdmin"
  /\ Served

GroupsDemoteFromAdmin ==
  /\ \E input \in [groupId : GroupIds, userId : Users, memberUserId : Users] :
       LET served == DemoteFromAdmin(db, input) IN
       /\ db' = served.tables
       /\ result' = [outcome |-> served.outcome]
  /\ called' = "groups.demoteFromAdmin"
  /\ Served

\* the days an invitation lasts pass
Tick ==
  /\ now + InvitationDays <= MaxNow
  /\ now' = now + InvitationDays
  /\ called' = "none"
  /\ result' = <<>>
  /\ UNCHANGED <<totalAmount, splits, payments, mode, dataAmount, participantIds,
                 history, requests, db>>

NextGroups ==
  \/ GroupsCreate
  \/ GroupsAddMember
  \/ GroupsRemoveMember
  \/ GroupsInviteToGroup
  \/ GroupsRespondToInvitation
  \/ GroupsCancelInvitation
  \/ GroupsPromoteToAdmin
  \/ GroupsDemoteFromAdmin
  \/ Tick

SpecGroups == InitGroups /\ [][NextGroups]_vars

(***************************************************************************)
(* The invitations of one group: alice created it and is its admin, she    *)
(* invites, cancels and removes, and anyone answers any invitation.        *)
(***************************************************************************)
InitInvitations ==
  /\ db = CreateGroup(EmptyGroupTables, [createdBy |-> "alice"]).tables
  /\ requests = <<>>
  /\ now = 0
  /\ totalAmount = Zero
  /\ splits = <<>>
  /\ payments = <<>>
  /\ called = "none"
  /\ mode = ""
  /\ result = <<>>
  /\ dataAmount = ""
  /\ participantIds = <<>>
  /\ history = <<>>

InviteFew ==
  /\ db.invitationSeq < MaxInvitations
  /\ \E input \in [groupId : {1}, invitedUserId : Users, invitedByUserId : {"alice"}] :
       LET served == InviteToGroup(db, input, now) IN
       /\ db' = served.tables
       /\ result' = [outcome |-> served.outcome]
  /\ called' = "groups.inviteToGroup"
  /\ Served

CancelFew ==
  /\ \E input \in [invitationId : InvitationIds, userId : {"alice"}] :
       LET served == CancelInvitation(db, input) IN
       /\ db' = served.tables
       /\ result' = [outcome |-> served.outcome]
  /\ called' = "groups.cancelInvitation"
  /\ Served

RemoveFew ==
  /\ \E input \in [groupId : {1}, userId : {"alice"}, memberUserId : {"bob"}] :
       LET served == RemoveMember(db, input) IN
       /\ db' = served.tables
       /\ result' = [outcome |-> served.outcome]
  /\ called' = "groups.removeMember"
  /\ Served

NextInvitations ==
  \/ InviteFew
  \/ GroupsRespondToInvitation
  \/ CancelFew
  \/ RemoveFew
  \/ Tick

SpecInvitations == InitInvitations /\ [][NextInvitations]_vars

(***************************************************************************)
(* Two demoteFromAdmin calls in flight: three reads and one update each,   *)
(* every one awaited on its own, in any interleaving.                      *)
(***************************************************************************)
\* lines 736-746
ReadAdminMembership ==
  \E r \in 1..Len(requests) :
    /\ At(r, "adminMembership")
    /\ requests' =
         [requests EXCEPT ![r].pc =
            IF FindAdminMembership(db, requests[r].input.groupId,
                                   requests[r].input.userId) = <<>>
            THEN "Only group admins can demote members"
            ELSE "memberToDemote"]
    /\ UNCHANGED db
    /\ Idle

\* lines 749-762
ReadMemberToDemote ==
  \E r \in 1..Len(requests) :
    /\ At(r, "memberToDemote")
    /\ LET memberToDemote == FindMembership(db, requests[r].input.groupId,
                                            requests[r].input.memberUserId)
       IN  requests' =
             [requests EXCEPT ![r].pc =
                IF memberToDemote = <<>> THEN "Member not found in this group"
                ELSE IF memberToDemote[1].role # "admin" THEN "Member is not an admin"
                ELSE "allAdmins"]
    /\ UNCHANGED db
    /\ Idle

\* lines 765-774
ReadAllAdmins ==
  \E r \in 1..Len(requests) :
    /\ At(r, "allAdmins")
    /\ requests' =
         [requests EXCEPT ![r].pc =
            IF /\ Len(FindAllAdmins(db, requests[r].input.groupId)) = 1
               /\ requests[r].input.memberUserId = requests[r].input.userId
            THEN "Cannot demote yourself as the only admin"
            ELSE "update"]
    /\ UNCHANGED db
    /\ Idle

\* lines 777-785
SendDemote ==
  \E r \in 1..Len(requests) :
    /\ At(r, "update")
    /\ db' = SetRole(db, requests[r].input.groupId, requests[r].input.memberUserId,
                     "member")
    /\ requests' = [requests EXCEPT ![r].pc = "returned"]
    /\ Idle

\* group 1 as create, addMember and promoteToAdmin leave it: its creator an
\* admin, the other user absent, a member or an admin
DemoteTables ==
  {CreateGroup(EmptyGroupTables, [createdBy |-> creator]).tables : creator \in Users}
    \cup
  {InsertMembership(CreateGroup(EmptyGroupTables, [createdBy |-> creator]).tables,
                    1, other, role) :
     creator \in Users, other \in Users, role \in Roles}

\* no user twice in a group
OneRowPerMember(tables) ==
  \A i, j \in 1..Len(tables.groupMemberships) :
    (/\ tables.groupMemberships[i].groupId = tables.groupMemberships[j].groupId
     /\ tables.groupMemberships[i].userId = tables.groupMemberships[j].userId) => i = j

DemoteInputs == [groupId : {1}, userId : Users, memberUserId : Users]

Demoting(input) == [input |-> input, pc |-> "adminMembership"]

InitDemoteRace ==
  /\ db \in {tables \in DemoteTables : OneRowPerMember(tables)}
  /\ \E first \in DemoteInputs, second \in DemoteInputs :
       requests = <<Demoting(first), Demoting(second)>>
  /\ now = 0
  /\ totalAmount = Zero
  /\ splits = <<>>
  /\ payments = <<>>
  /\ called = "none"
  /\ mode = ""
  /\ result = <<>>
  /\ dataAmount = ""
  /\ participantIds = <<>>
  /\ history = <<>>

NextDemoteRace ==
  ReadAdminMembership \/ ReadMemberToDemote \/ ReadAllAdmins \/ SendDemote

SpecDemoteRace == InitDemoteRace /\ [][NextDemoteRace]_vars

(***************************************************************************)
(* The friends router.  A friendship row is owned by userId and names      *)
(* friendId, which is the e-mail address the request was sent to until the *)
(* request is accepted.  The table has no unique index.                    *)
(***************************************************************************)
MaxFriendships == 3

EmptyFriendTables == [friendships |-> <<>>, friendshipSeq |-> 0]

EmailOf(userId) == userId \o "@even.app"

\* friendId.includes("@")
IncludesAt(string) == \E i \in 1..Len(string) : SubSeq(string, i, i) = "@"

\* findFirst on friendships by id: no or one row
FindFriendship(tables, friendshipId) ==
  LET found == SelectSeq(tables.friendships, LAMBDA row : row.id = friendshipId)
  IN  IF found = <<>> THEN <<>> ELSE <<found[1]>>

\* findFirst on friendships by owner, friend and status
FindFriendshipOf(tables, userId, friendId, status) ==
  LET found == SelectSeq(tables.friendships,
                         LAMBDA row : /\ row.userId = userId
                                      /\ row.friendId = friendId
                                      /\ row.status = status)
  IN  IF found = <<>> THEN <<>> ELSE <<found[1]>>

\* findFirst on friendships by id, owner and status pending
FindOwnRequest(tables, friendshipId, userId) ==
  LET found == SelectSeq(tables.friendships,
                         LAMBDA row : /\ row.id = friendshipId
                                      /\ row.userId = userId
                                      /\ row.status = "pending")
  IN  IF found = <<>> THEN <<>> ELSE <<found[1]>>

InsertFriendship(tables, userId, friendId, status) ==
  [tables EXCEPT
     !.friendshipSeq = @ + 1,
     !.friendships = Append(@, [id       |-> tables.friendshipSeq + 1,
                                userId   |-> userId,
                                friendId |-> friendId,
                                status   |-> status])]

SetFriendship(tables, friendshipId, field, value) ==
  [tables EXCEPT !.friendships =
     [i \in 1..Len(@) |->
        IF @[i].id = friendshipId THEN [@[i] EXCEPT ![field] = value] ELSE @[i]]]

DeleteFriendship(tables, friendshipId) ==
  [tables EXCEPT !.friendships = SelectSeq(@, LAMBDA row : row.id # friendshipId)]

\* friendsRouter.sendFriendRequest, lines 115-162
SendFriendRequest(tables, input) ==
  IF input.friendEmail = input.userId
  THEN Outcome(tables, "You cannot add yourself as a friend")
  ELSE IF FindFriendshipOf(tables, input.userId, input.friendEmail, "pending") # <<>>
  THEN Outcome(tables, "Friend request already sent")
  ELSE IF FindFriendshipOf(tables, input.userId, input.friendEmail, "accepted") # <<>>
  THEN Outcome(tables, "You are already friends")
  ELSE Outcome(InsertFriendship(tables, input.userId, input.friendEmail, "pending"),
               "ok")

\* friendsRouter.respondToFriendRequest, lines 292-349
RespondToFriendRequest(tables, input) ==
  LET found == FindFriendship(tables, input.friendshipId) IN
  IF found = <<>>
  THEN Outcome(tables, "Friendship not found")
  ELSE IF input.response = "accepted"
  THEN LET friendship == found[1]
           t1 == SetFriendship(tables, input.friendshipId, "status", "accepted")
           t2 == InsertFriendship(t1, input.userId, friendship.userId, "accepted")
       IN  Outcome(IF IncludesAt(friendship.friendId)
                   THEN SetFriendship(t2, input.friendshipId, "friendId", input.userId)
                   ELSE t2,
                   "ok")
  ELSE Outcome(SetFriendship(tables, input.friendshipId, "status", input.response),
               "ok")

\* friendsRouter.removeFriend, lines 351-359
RemoveFriend(tables, input) ==
  Outcome(DeleteFriendship(tables, input.friendshipId), "ok")

\* friendsRouter.cancelFriendRequest, lines 361-388
CancelFriendRequest(tables, input) ==
  IF FindOwnRequest(tables, input.friendshipId, input.userId) = <<>>
  THEN Outcome(tables, "Friend request not found or you are not authorized to cancel it.")
  ELSE Outcome(DeleteFriendship(tables, input.friendshipId), "ok")

FriendshipIds == 1..MaxFriendships

InitFriends ==
  /\ db = EmptyFriendTables
  /\ requests = <<>>
  /\ now = 0
  /\ totalAmount = Zero
  /\ splits = <<>>
  /\ payments = <<>>
  /\ called = "none"
  /\ mode = ""
  /\ result = <<>>
  /\ dataAmount = ""
  /\ participantIds = <<>>
  /\ history = <<>>

FriendsSendFriendRequest ==
  /\ db.friendshipSeq < MaxFriendships
  /\ \E input \in [userId : Users, friendEmail : {EmailOf(userId) : userId \in Users}] :
       LET served == SendFriendRequest(db, input) IN
       /\ db' = served.tables
       /\ result' = [outcome |-> served.outcome]
  /\ called' = "friends.sendFriendRequest"
  /\ Served

FriendsRespondToFriendRequest ==
  /\ db.friendshipSeq < MaxFriendships
  /\ \E input \in [friendshipId : FriendshipIds, userId : Users,
                   response : {"accepted", "declined"}] :
       LET served == RespondToFriendRequest(db, input) IN
       /\ db' = served.tables
       /\ result' = [outcome |-> served.outcome]
  /\ called' = "friends.respondToFriendRequest"
  /\ Served

FriendsRemoveFriend ==
  /\ \E input \in [friendshipId : FriendshipIds] :
       LET served == RemoveFriend(db, input) IN
       /\ db' = served.tables
       /\ result' = [outcome |-> served.outcome]
  /\ called' = "friends.removeFriend"
  /\ Served

FriendsCancelFriendRequest ==
  /\ \E input \in [friendshipId : FriendshipIds, userId : Users] :
       LET served == CancelFriendRequest(db, input) IN
       /\ db' = served.tables
       /\ result' = [outcome |-> served.outcome]
  /\ called' = "friends.cancelFriendRequest"
  /\ Served

NextFriends ==
  \/ FriendsSendFriendRequest
  \/ FriendsRespondToFriendRequest
  \/ FriendsRemoveFriend
  \/ FriendsCancelFriendRequest

SpecFriends == InitFriends /\ [][NextFriends]_vars

(***************************************************************************)
(* Money as the specification reads it: exact hundredths.  A double that   *)
(* stands for an amount is read as the whole number of hundredths nearest  *)
(* to it, so 100.01 is 10001 whatever its binary expansion is.             *)
(***************************************************************************)
Hundredths(x) ==
  LET n == BToInt(ScaledMagnitude(x, 2)) IN IF x.neg THEN -n ELSE n

Abs(n) == IF n < 0 THEN -n ELSE n

\* the decimal notation of a number of hundredths, e.g. "100.01"
DecimalString(h) == FixedString(h < 0, BFromInt(Abs(h)), 2)

Contains(str, part) ==
  \E i \in 1..(Len(str) - Len(part) + 1) : SubSeq(str, i, i + Len(part) - 1) = part

\* The amount strings as decimals: sign, digits, '.', digits, of which the
\* first two after the point count (the amounts of the model have no more).
RECURSIVE DigitsInt(_, _, _)
DigitsInt(s, i, j) ==
  IF j <= i THEN 0 ELSE 10 * DigitsInt(s, i, j - 1) + DigitValue(CharAt(s, j - 1))

\* [numeric, hundredths]: whether s starts with a decimal, and its value
ReadDecimal(s) ==
  LET i0     == SkipSpaces(s, 1)
      signed == i0 <= Len(s) /\ CharAt(s, i0) \in {"+", "-"}
      i1     == IF signed THEN i0 + 1 ELSE i0
      i2     == DigitRun(s, i1)
      dot    == i2 <= Len(s) /\ CharAt(s, i2) = "."
      i3     == IF dot THEN DigitRun(s, i2 + 1) ELSE i2
      frac   == IF dot THEN SubSeq(s, i2 + 1, i3 - 1) \o "00" ELSE "00"
      h      == 100 * DigitsInt(s, i1, i2) + DigitsInt(frac, 1, 3)
  IN  [numeric    |-> i2 > i1 \/ i3 > i2 + 1,
       hundredths |-> IF signed /\ CharAt(s, i0) = "-" THEN -h ELSE h]

\* a missing amount counts as "0"
AmountString(item) == IF HasAmount(item) THEN item.amount ELSE "0"

IsNumeric(item) == ReadDecimal(AmountString(item)).numeric

AmountHundredths(item) == ReadDecimal(AmountString(item)).hundredths

AllNumeric(items) == \A i \in 1..Len(items) : IsNumeric(items[i])

RECURSIVE SumHundredths(_)
SumHundredths(items) ==
  IF items = <<>> THEN 0
  ELSE AmountHundredths(Head(items)) + SumHundredths(Tail(items))

RECURSIVE SumPercentHundredths(_)
SumPercentHundredths(items) ==
  IF items = <<>> THEN 0
  ELSE Hundredths(PercentageOf(Head(items))) + SumPercentHundredths(Tail(items))

ItemsOf(items, u) == SelectSeq(items, LAMBDA item : item.userId = u)

Participants ==
  {splits[i].userId : i \in 1..Len(splits)}
    \cup {payments[i].userId : i \in 1..Len(payments)}

\* what u paid less what u owes, in hundredths
ExactBalance(u) ==
  SumHundredths(ItemsOf(payments, u)) - SumHundredths(ItemsOf(splits, u))

HasExactBalance(u) == AllNumeric(ItemsOf(payments, u)) /\ AllNumeric(ItemsOf(splits, u))

BalancedInput ==
  /\ AllNumeric(splits) /\ AllNumeric(payments)
  /\ SumHundredths(splits) = SumHundredths(payments)

RECURSIVE SumTransfers(_)
SumTransfers(debts) ==
  IF debts = <<>> THEN 0
  ELSE Hundredths(Head(debts).amount) + SumTransfers(Tail(debts))

TransfersFrom(u) == SelectSeq(result, LAMBDA debt : debt.from = u)

TransfersTo(u) == SelectSeq(result, LAMBDA debt : debt.to = u)

DebtsReturned == called = "calculateDebts"

(***************************************************************************)
(* calculateDebts                                                          *)
(***************************************************************************)
\* C1: when the splits and the payments sum to the same total, the transfers
\* to each creditor sum to that creditor's original positive balance to
\* within 0.01: a creditor whose credit an earlier debtor has used up
\* receives nothing more from the later debtors.
C1_CreditorReceivesItsCredit ==
  (DebtsReturned /\ BalancedInput) =>
    \A u \in Participants :
      ExactBalance(u) > 0 => Abs(SumTransfers(TransfersTo(u)) - ExactBalance(u)) <= 1

\* C2 as stated: when the splits and the payments sum to the same total, the
\* transfers from each debtor sum to that debtor's debt to within 0.01.
C2_DebtorPaysItsDebt ==
  (DebtsReturned /\ BalancedInput) =>
    \A u \in Participants :
      ExactBalance(u) < 0 => Abs(SumTransfers(TransfersFrom(u)) + ExactBalance(u)) <= 1

\* no participant is owed 0.01 or less
NoCreditWithinTolerance == \A u \in Participants : ExactBalance(u) \notin {1}

\* C2 amended: when the splits and the payments sum to the same total and no
\* participant is owed 0.01 or less, the transfers from each debtor sum to
\* that debtor's debt to within 0.01.
C2_DebtorPaysItsDebtWhenNoCreditIsDropped ==
  (DebtsReturned /\ BalancedInput /\ NoCreditWithinTolerance) =>
    \A u \in Participants :
      ExactBalance(u) < 0 => Abs(SumTransfers(TransfersFrom(u)) + ExactBalance(u)) <= 1

\* a debtor of a balanced input settles its debt with two transfers
C2_DebtorPaysTwoCreditors ==
  /\ DebtsReturned /\ BalancedInput /\ NoCreditWithinTolerance
  /\ \E u \in Participants : ExactBalance(u) < -1 /\ Len(TransfersFrom(u)) >= 2

\* C3: for every input, the amount of each returned transfer is at most the
\* original debt of its from and at most the original credit of its to.
C3_TransferWithinDebtAndCredit ==
  DebtsReturned =>
    LET balances == Balances(splits, payments) IN
    \A i \in 1..Len(result) :
      LET debt == result[i] IN
      /\ HasExactBalance(debt.from) /\ HasExactBalance(debt.to)
      /\ Hundredths(debt.amount) <= -ExactBalance(debt.from)
      /\ Hundredths(debt.amount) <= ExactBalance(debt.to)
      /\ ~FGt(debt.amount, MathAbs(BalanceOr0(balances, debt.from)))
      /\ ~FGt(debt.amount, BalanceOr0(balances, debt.to))

\* a transfer that the creditor's credit, smaller than the debt, limits
C3_TransferLimitedByCredit ==
  /\ DebtsReturned
  /\ \E i \in 1..Len(result) :
       /\ Hundredths(result[i].amount) < -ExactBalance(result[i].from)
       /\ Hundredths(result[i].amount) = ExactBalance(result[i].to)

\* C4: the from of every returned transfer has a balance below -0.01 and its
\* to a balance above 0.01, so that a participant whose balance is within
\* 0.01 of zero, 0.01 included, is in no transfer; from and to differ.
C4_TransferOnlyBetweenUnsettled ==
  DebtsReturned =>
    \A i \in 1..Len(result) :
      LET debt == result[i] IN
      /\ HasExactBalance(debt.from) /\ HasExactBalance(debt.to)
      /\ ExactBalance(debt.from) < -1
      /\ ExactBalance(debt.to) > 1
      /\ debt.from # debt.to

(***************************************************************************)
(* validateSplits and validatePayments                                     *)
(***************************************************************************)
ValidatorReturned == called \in {"validateSplits", "validatePayments"}

\* the list the validator that was called was given
Items == IF called = "validateSplits" THEN splits ELSE payments

\* C5: in percentage mode either validator accepts a non-empty list exactly
\* when the percentages (a missing one counting 0) sum to within 0.01 of 100,
\* whatever totalAmount and the amounts are; the error of a rejected list
\* contains the sum with two decimals followed by '%'.
C5_PercentageModeWithinTolerance ==
  (ValidatorReturned /\ mode = "percentage" /\ Items # <<>>) =>
    LET sum == SumPercentHundredths(Items) IN
    /\ result.isValid <=> Abs(sum - 10000) <= 1
    /\ ~result.isValid => Contains(result.error, DecimalString(sum) \o "%")

\* C6: in custom mode either validator accepts a non-empty list of numeric
\* amounts (a missing one counting 0) exactly when the amounts sum to within
\* 0.01 of totalAmount; the error of a rejected list contains totalAmount and
\* the sum, each with two decimals.
C6_CustomModeWithinTolerance ==
  (ValidatorReturned /\ mode = "custom" /\ Items # <<>> /\ AllNumeric(Items)) =>
    LET sum   == SumHundredths(Items)
        total == Hundredths(totalAmount)
    IN  /\ result.isValid <=> Abs(sum - total) <= 1
        /\ ~result.isValid =>
             /\ Contains(result.error, DecimalString(total))
             /\ Contains(result.error, DecimalString(sum))

\* C7: in single mode validatePayments accepts a non-empty list exactly when
\* the amount of its first payment (numeric, or missing and counting 0) is
\* within 0.01 of totalAmount, whatever the later payments are; the error of
\* a rejected list contains totalAmount with two decimals.
C7_SinglePayerWithinTolerance ==
  (called = "validatePayments" /\ mode = "single" /\ payments # <<>>
     /\ IsNumeric(payments[1])) =>
    LET paid  == AmountHundredths(payments[1])
        total == Hundredths(totalAmount)
    IN  /\ result.isValid <=> Abs(paid - total) <= 1
        /\ ~result.isValid => Contains(result.error, DecimalString(total))

\* C8: an empty list is rejected, with the error 'No splits provided' by
\* validateSplits and 'No payments provided' by validatePayments, for every
\* totalAmount and every mode.
C8_EmptyListRejected ==
  /\ (called = "validateSplits" /\ splits = <<>>) =>
       result = [isValid |-> FALSE, error |-> "No splits provided"]
  /\ (called = "validatePayments" /\ payments = <<>>) =>
       result = [isValid |-> FALSE, error |-> "No payments provided"]

\* validateSplits has rejected an empty list in equal mode, the mode that
\* checks nothing else
C8_EmptySplitsRejectedInEqualMode ==
  /\ called = "validateSplits" /\ splits = <<>> /\ mode = "equal"
  /\ ~result.isValid

\* C9: in equal mode validateSplits accepts every non-empty list, whatever
\* its amounts and percentages are.
C9_EqualModeAcceptsEveryList ==
  (called = "validateSplits" /\ mode = "equal" /\ splits # <<>>) =>
    result = [isValid |-> TRUE]

\* an equal-mode list is accepted though its amounts are far from the total
\* and its percentages far from 100
C9_EqualModeAcceptsWrongSums ==
  /\ called = "validateSplits" /\ mode = "equal" /\ splits # <<>>
  /\ AllNumeric(splits)
  /\ Abs(SumHundredths(splits) - Hundredths(totalAmount)) > 1
  /\ Abs(SumPercentHundredths(splits) - 10000) > 1
  /\ result.isValid

\* the list with "0" for every amount that is no number
ZeroMalformed(items) ==
  [i \in 1..Len(items) |->
     IF IsNumeric(items[i]) THEN items[i] ELSE [items[i] EXCEPT !.amount = "0"]]

\* C10: an amount string that is no number contributes 0: a validator
\* returns what it returns for the list with that amount replaced by "0".
C10_MalformedAmountCountsAsZero ==
  /\ called = "validateSplits" =>
       result = validateSplits(totalAmount, ZeroMalformed(splits), mode)
  /\ called = "validatePayments" =>
       result = validatePayments(totalAmount, ZeroMalformed(payments), mode)

\* C11: the tolerance is inclusive at 0.01.  In percentage mode a sum of
\* 100.01 or 99.99 is accepted and a sum of 100.02 or 99.98 rejected; in
\* custom mode a sum of numeric amounts exactly 0.01 away from totalAmount is
\* accepted and a sum 0.02 away rejected.
C11_ToleranceInclusiveAtOneHundredth ==
  (ValidatorReturned /\ Items # <<>>) =>
    /\ mode = "percentage" =>
         LET off == Abs(SumPercentHundredths(Items) - 10000) IN
         /\ off = 1 => result.isValid
         /\ off = 2 => ~result.isValid
    /\ (mode = "custom" /\ AllNumeric(Items)) =>
         LET off == Abs(SumHundredths(Items) - Hundredths(totalAmount)) IN
         /\ off = 1 => result.isValid
         /\ off = 2 => ~result.isValid

\* C12: a validator returns, for every input, either isValid = TRUE and no
\* error or isValid = FALSE and an error that is not the empty string.
C12_RejectionCarriesError ==
  ValidatorReturned =>
    /\ result.isValid \in BOOLEAN
    /\ result.isValid => DOMAIN result = {"isValid"}
    /\ ~result.isValid =>
         /\ DOMAIN result = {"isValid", "error"}
         /\ Len(result.error) > 0

\* validatePayments has rejected an empty list and said why
C12_EmptyPaymentsRejectedWithError ==
  /\ called = "validatePayments" /\ payments = <<>>
  /\ ~result.isValid /\ Len(result.error) > 0

(***************************************************************************)
(* createExpenseSchema                                                     *)
(***************************************************************************)
\* C13: for every total, split mode, payment mode, non-empty split list and
\* non-empty payment list, the refinement of createExpenseSchema accepts the
\* input exactly when validateSplits and validatePayments both return
\* isValid = TRUE for the same values.
C13_RefinementAgreesWithValidators ==
  (called = "createExpenseSchema" /\ splits # <<>> /\ payments # <<>>) =>
    (result <=>
       /\ validateSplits(parseFloat(dataAmount), splits, mode[1]).isValid
       /\ validatePayments(parseFloat(dataAmount), payments, mode[2]).isValid)

(***************************************************************************)
(* calculateEqualSplits and calculatePercentageSplits.  "Rounded to two    *)
(* decimals" is read as: a decimal with two digits after the point that is *)
(* as near the exact value as any other; the totals and percentages of the *)
(* model have two decimals themselves.                                     *)
(***************************************************************************)
\* str is a decimal with two digits after the point, h hundredths
IsDecimalString(str, h) == ReadDecimal(str).numeric /\ str = DecimalString(h)

\* C14: calculateEqualSplits(T, ids) returns one entry per element of ids, in
\* the same order and with the same userId; every entry has the amount T/N
\* rounded to two decimals and the percentage 100/N rounded to two decimals
\* (N the length of ids); for N = 0 it returns the empty list; every entry
\* has the same amount, so nobody is given a remainder.
C14_EqualSplitsPerParticipant ==
  called = "calculateEqualSplits" =>
    LET N == Len(participantIds)
        t == Hundredths(totalAmount)
    IN  /\ Len(result) = N
        /\ \A i \in 1..N :
             LET a == ReadDecimal(result[i].amount).hundredths
                 k == Hundredths(result[i].percentage)
             IN  /\ DOMAIN result[i] = {"userId", "amount", "percentage"}
                 /\ result[i].userId = participantIds[i]
                 /\ IsDecimalString(result[i].amount, a)
                 /\ 2 * Abs(N * a - t) <= N
                 /\ result[i].percentage = Num(k)
                 /\ 2 * Abs(N * k - 10000) <= N
                 /\ result[i].amount = result[1].amount

\* three participants share 100: each gets 33.33 and 33.33 percent, and the
\* amounts do not add up to the total
C14_ThirdsLeaveARemainder ==
  /\ called = "calculateEqualSplits"
  /\ Len(participantIds) = 3
  /\ Hundredths(totalAmount) = 10000
  /\ \A i \in 1..3 : result[i].amount = "33.33" /\ result[i].percentage = Num(3333)

\* C15: calculatePercentageSplits(T, splits) returns a list of the length and
\* order of splits; each entry keeps its userId and its percentage (or its
\* lack of one) and has the amount T * percentage / 100 rounded to two
\* decimals when a percentage is present and "0.00" when it is missing,
\* whatever amount the input had.
C15_PercentageSplitsPerEntry ==
  called = "calculatePercentageSplits" =>
    /\ Len(result) = Len(splits)
    /\ \A i \in 1..Len(splits) :
         LET a == ReadDecimal(result[i].amount).hundredths
             t == Hundredths(totalAmount)
         IN  /\ result[i].userId = splits[i].userId
             /\ HasPercentage(result[i]) = HasPercentage(splits[i])
             /\ HasPercentage(splits[i]) =>
                  /\ result[i].percentage = splits[i].percentage
                  /\ IsDecimalString(result[i].amount, a)
                  /\ 2 * Abs(10000 * a - t * Hundredths(splits[i].percentage))
                       <= 10000
             /\ ~HasPercentage(splits[i]) => result[i].amount = "0.00"
             /\ DOMAIN result[i] \subseteq {"userId", "amount", "percentage"}

\* a split given with an amount of its own gets the amount of its percentage
C15_GivenAmountOverwritten ==
  /\ called = "calculatePercentageSplits"
  /\ \E i \in 1..Len(splits) :
       /\ HasAmount(splits[i]) /\ HasPercentage(splits[i])
       /\ Hundredths(splits[i].percentage) = 6000
       /\ Hundredths(totalAmount) = 10001
       /\ result[i].amount = "60.01"

(***************************************************************************)
(* calculateDebts, continued                                               *)
(***************************************************************************)
Payers == {payments[i].userId : i \in 1..Len(payments)}

\* what u owes by the splits, in hundredths
SplitTotal(u) == SumHundredths(ItemsOf(splits, u))

\* C16: when exactly one participant P has payments and they total the sum
\* of all split amounts, calculateDebts returns exactly one transfer for each
\* other participant whose split total exceeds 0.01, from that participant
\* to P and of the amount of that split total, and no other transfer.
C16_SinglePayerCollectsEachShare ==
  (/\ DebtsReturned
   /\ AllNumeric(splits) /\ AllNumeric(payments)
   /\ Cardinality(Payers) = 1
   /\ SumHundredths(payments) = SumHundredths(splits)) =>
    LET P     == CHOOSE u \in Payers : TRUE
        owing == {u \in Participants \ {P} : SplitTotal(u) > 1}
    IN  /\ Len(result) = Cardinality(owing)
        /\ \A u \in owing : \E i \in 1..Len(result) : result[i].from = u
        /\ \A i \in 1..Len(result) :
             /\ result[i].from \in owing
             /\ result[i].to = P
             /\ Hundredths(result[i].amount) = SplitTotal(result[i].from)

\* one participant paid for two others, and each of them pays her back
C16_TwoShareholdersPayTheSinglePayer ==
  /\ DebtsReturned
  /\ AllNumeric(splits) /\ AllNumeric(payments)
  /\ Cardinality(Payers) = 1
  /\ SumHundredths(payments) = SumHundredths(splits)
  /\ Len(result) = 2
  /\ result[1].from # result[2].from

\* C17: calculateDebts returns the empty list whenever every participant's
\* payments total equals that participant's splits total within 0.01, as
\* when both lists are empty.
C17_NoTransferWhenAllWithinTolerance ==
  (/\ DebtsReturned
   /\ \A u \in Participants : HasExactBalance(u) /\ Abs(ExactBalance(u)) <= 1) =>
    result = <<>>

\* C18: every returned transfer has a numeric amount strictly greater than
\* 0.01, so none is zero or negative, whether or not the payments and the
\* splits balance.
C18_TransferAboveTolerance ==
  DebtsReturned =>
    \A i \in 1..Len(result) :
      /\ ~IsNaN(result[i].amount)
      /\ ~result[i].amount.neg
      /\ FLt(Tolerance, result[i].amount)

\* an input that does not balance yields a transfer
C18_TransferOfUnbalancedInput ==
  /\ DebtsReturned
  /\ AllNumeric(splits) /\ AllNumeric(payments)
  /\ SumHundredths(payments) # SumHundredths(splits)
  /\ result # <<>>

\* the userIds in the order the function meets them: splits, then payments
UserIdsInOrder ==
  [i \in 1..(Len(splits) + Len(payments)) |->
     IF i <= Len(splits) THEN splits[i].userId
     ELSE payments[i - Len(splits)].userId]

\* the place of u's first appearance
Rank(u) ==
  CHOOSE i \in 1..Len(UserIdsInOrder) :
    /\ UserIdsInOrder[i] = u
    /\ \A j \in 1..(i - 1) : UserIdsInOrder[j] # u

Min(a, b) == IF a < b THEN a ELSE b

\* the hundredths u has sent, and has been sent, in the transfers before the
\* i-th
RECURSIVE SentBefore(_, _)
SentBefore(i, u) ==
  IF i <= 1 THEN 0
  ELSE SentBefore(i - 1, u)
         + (IF result[i - 1].from = u THEN Hundredths(result[i - 1].amount) ELSE 0)

RECURSIVE ReceivedBefore(_, _)
ReceivedBefore(i, u) ==
  IF i <= 1 THEN 0
  ELSE ReceivedBefore(i - 1, u)
         + (IF result[i - 1].to = u THEN Hundredths(result[i - 1].amount) ELSE 0)

\* C19: the transfers are grouped by debtor in the order of first appearance
\* (splits first, then payments) and, within a debtor, by creditor in that
\* order; there is at most one transfer for a pair (from, to); and each
\* transfer takes the smaller of the debtor's remaining debt and the
\* creditor's remaining credit before the debtor moves on.
C19_TransfersInOrderOfAppearance ==
  DebtsReturned =>
    /\ \A i, j \in 1..Len(result) :
         i < j =>
           /\ Rank(result[i].from) <= Rank(result[j].from)
           /\ result[i].from = result[j].from =>
                Rank(result[i].to) < Rank(result[j].to)
    /\ \A i \in 1..Len(result) :
         (HasExactBalance(result[i].from) /\ HasExactBalance(result[i].to)) =>
           Hundredths(result[i].amount) =
             Min(-ExactBalance(result[i].from) - SentBefore(i, result[i].from),
                 ExactBalance(result[i].to) - ReceivedBefore(i, result[i].to))

\* the ordering alone: debtors, and each debtor's creditors, in the order of
\* first appearance, so no pair occurs twice
C19_OrderOfAppearanceAlone ==
  DebtsReturned =>
    \A i, j \in 1..Len(result) :
      i < j =>
        /\ Rank(result[i].from) <= Rank(result[j].from)
        /\ result[i].from = result[j].from =>
             Rank(result[i].to) < Rank(result[j].to)

SplitsOf(expenseId) ==
  SelectSeq(db.expenseSplits, LAMBDA row : row.expenseId = expenseId)

PaymentsOf(expenseId) ==
  SelectSeq(db.expensePayments, LAMBDA row : row.expenseId = expenseId)

CommentsOf(expenseId) ==
  SelectSeq(db.expenseComments, LAMBDA row : row.expenseId = expenseId)

StoredExpenses == {db.expenses[i] : i \in 1..Len(db.expenses)}

StoredIds == {expense.id : expense \in StoredExpenses}

StoredAmount(expense) == ReadDecimal(expense.amount).hundredths

\* C21: after any sequence of create and update calls, every stored expense
\* that has splits satisfies its mode's rule against its stored amount: in
\* custom mode the split amounts sum to the amount within 0.01, in
\* percentage mode the split percentages sum to 100 within 0.01.
C21_StoredSplitsKeepTheModeRule ==
  \A expense \in StoredExpenses :
    LET rows == SplitsOf(expense.id) IN
    rows # <<>> =>
      /\ expense.splitMode = "custom" =>
           Abs(SumHundredths(rows) - StoredAmount(expense)) <= 1
      /\ expense.splitMode = "percentage" =>
           Abs(SumPercentHundredths(rows) - 10000) <= 1

\* C22: after any sequence of create and update calls, every stored expense
\* in payment mode single that has payments has exactly one payment, and its
\* amount is the stored amount of the expense.
C22_SinglePayerPaysTheStoredAmount ==
  \A expense \in StoredExpenses :
    LET rows == PaymentsOf(expense.id) IN
    (expense.paymentMode = "single" /\ rows # <<>>) =>
      /\ Len(rows) = 1
      /\ AmountHundredths(rows[1]) = StoredAmount(expense)

\* no two rows of the same expense name the same user
OneRowPerUser(table) ==
  \A i, j \in 1..Len(table) :
    (i # j /\ table[i].expenseId = table[j].expenseId) =>
      table[i].userId # table[j].userId

\* C23: after any sequence of create and update calls, no expense has two
\* stored splits with the same userId, and none has two stored payments
\* with the same userId.
C23_OneSplitAndOnePaymentPerUser ==
  OneRowPerUser(db.expenseSplits) /\ OneRowPerUser(db.expensePayments)

\* the expense the latest history row is about
LatestExpenseId == db.expenseHistory[Len(db.expenseHistory)].expenseId

\* C24: splits and payments have no life of their own.  After any sequence
\* of create, update and delete calls made one after the other, the stored
\* splits and the stored payments of an expense are exactly the rows of the
\* latest create or update that supplied them, no row is left of an earlier
\* version or of an expense that is not stored, and right after a delete no
\* split, payment or comment refers to the deleted expense.
C24_RowsFollowTheLatestCall ==
  /\ \A id \in 1..Len(history) :
       /\ SplitsOf(id) = history[id].splits
       /\ PaymentsOf(id) = history[id].payments
  /\ \A i \in 1..Len(db.expenseSplits) : db.expenseSplits[i].expenseId \in StoredIds
  /\ \A i \in 1..Len(db.expensePayments) : db.expensePayments[i].expenseId \in StoredIds
  /\ called = "expense.delete" =>
       /\ LatestExpenseId \notin StoredIds
       /\ SplitsOf(LatestExpenseId) = <<>>
       /\ PaymentsOf(LatestExpenseId) = <<>>
       /\ CommentsOf(LatestExpenseId) = <<>>

\* an update has put two payments in the place of the one the first expense
\* was created with, and the second expense still has the one it was
\* created with
C24_PaymentsReplacedNextToAnotherExpense ==
  /\ called = "expense.update"
  /\ result.outcome = "ok"
  /\ Len(PaymentsOf(1)) = 2
  /\ Len(PaymentsOf(2)) = 1

\* what a step did to the history table
HistoryGrewBy(changeType) ==
  /\ Len(db'.expenseHistory) = Len(db.expenseHistory) + 1
  /\ db'.expenseHistory[Len(db'.expenseHistory)].changeType = changeType

HistoryKept ==
  /\ Len(db'.expenseHistory) >= Len(db.expenseHistory)
  /\ SubSeq(db'.expenseHistory, 1, Len(db.expenseHistory)) = db.expenseHistory

\* create adds one 'created' row, update one 'updated' row when it changed
\* the expense or was given splits or payments and none otherwise, delete one
\* 'deleted' row, and no step removes or alters a row
HistoryMirrorsTheCall ==
  /\ HistoryKept
  /\ (called' = "expense.create" /\ result'.outcome = "ok") => HistoryGrewBy("created")
  /\ (called' = "expense.update" /\ result'.outcome = "ok") =>
       IF db'.expenses # db.expenses \/ result'.supplied
       THEN HistoryGrewBy("updated")
       ELSE db'.expenseHistory = db.expenseHistory
  /\ called' = "expense.delete" => HistoryGrewBy("deleted")
  /\ (called' \notin {"expense.create", "expense.update", "expense.delete"}
        \/ result'.outcome # "ok") => db'.expenseHistory = db.expenseHistory

\* a new history row is about an expense that is stored before or after the
\* step
NewRowAboutAnExpense ==
  Len(db'.expenseHistory) > Len(db.expenseHistory) =>
    \E table \in {db.expenses, db'.expenses} :
      \E i \in 1..Len(table) :
        table[i].id = db'.expenseHistory[Len(db'.expenseHistory)].expenseId

\* C30: the expense history is append-only and mirrors the operations on
\* existing expenses: create adds exactly one 'created' record, update adds
\* exactly one 'updated' record when it changed a field or supplied splits or
\* payments and none when it changed nothing, delete adds exactly one
\* 'deleted' record, no operation removes or alters a record, and every
\* record refers to an expense that existed when the record was written.
C30_HistoryMirrorsExistingExpenses ==
  [][HistoryMirrorsTheCall /\ NewRowAboutAnExpense]_vars

\* the same without the last part: the records mirror the calls, whether or
\* not the expense exists
C30_HistoryMirrorsTheCalls == [][HistoryMirrorsTheCall]_vars

Returned(r) == requests[r].pc = "returned"

\* C25: two update calls on the same expense, each supplying a split list,
\* with their database statements interleaved: once both have returned the
\* stored splits of the expense are exactly the records of one of the two
\* calls, never the union and never a duplicate.
C25_SplitsOfOneOfTheTwoCalls ==
  (Len(requests) = 2 /\ Returned(1) /\ Returned(2)) =>
    \E r \in {1, 2} :
      SplitsOf(requests[r].input.id) = RequestSplitRecords(requests[r])

\* C27: after any sequence of groups.create, addMember, inviteToGroup,
\* respondToInvitation, removeMember, promoteToAdmin and demoteFromAdmin
\* calls a group has at most one membership row per user.
C27_OneMembershipPerUser ==
  \A i, j \in 1..Len(db.groupMemberships) :
    (/\ db.groupMemberships[i].groupId = db.groupMemberships[j].groupId
     /\ db.groupMemberships[i].userId = db.groupMemberships[j].userId) => i = j

Refusals ==
  {"Only group admins can demote members", "Member not found in this group",
   "Member is not an admin", "Cannot demote yourself as the only admin"}

HasAdmin(tables, groupId) == FindAllAdmins(tables, groupId) # <<>>

\* C26: in every interleaving of concurrent demoteFromAdmin calls, two
\* admins demoting each other included, no step removes the last admin of
\* the group, and a call that is refused (caller not an admin, target not a
\* member, target not an admin, sole admin demoting itself) leaves the
\* memberships unchanged.
C26_DemoteKeepsAnAdmin ==
  [][/\ HasAdmin(db, 1) => HasAdmin(db', 1)
     /\ \A r \in 1..Len(requests) :
          (requests'[r].pc \in Refusals /\ requests[r].pc \notin Refusals) =>
            db'.groupMemberships = db.groupMemberships]_vars

\* the second half alone: a refused call writes nothing
C26_RefusedCallWritesNothing ==
  [][\A r \in 1..Len(requests) :
       (requests'[r].pc \in Refusals /\ requests[r].pc \notin Refusals) =>
         db'.groupMemberships = db.groupMemberships]_vars

\* the invitation with this id, as a sequence of no or one row
InvitationRow(tables, invitationId) ==
  SelectSeq(tables.groupInvitations, LAMBDA row : row.id = invitationId)

\* an invitation that is not pending stays as it is, or is deleted
AnsweredStaysAnswered ==
  \A i \in 1..Len(db.groupInvitations) :
    db.groupInvitations[i].status # "pending" =>
      InvitationRow(db', db.groupInvitations[i].id)
        \in {<<>>, <<db.groupInvitations[i]>>}

\* what a respondToInvitation call does, read off the tables before and
\* after it
RespondsAsSpecified ==
  LET input == result'.input
      row   == InvitationRow(db, input.invitationId)
      mine  == row # <<>> /\ row[1].invitedUserId = input.userId
      open  == mine /\ row[1].status = "pending"
      late  == open /\ now > row[1].expiresAt
  IN  /\ result'.outcome = "ok" <=> (open /\ ~late)
      /\ late =>
           /\ result'.outcome = "This invitation has expired"
           /\ db' = SetInvitationStatus(db, input.invitationId, "expired")
      /\ (open /\ ~late) =>
           /\ InvitationRow(db', input.invitationId)
                = <<[row[1] EXCEPT !.status = input.response]>>
           /\ db'.groupMemberships =
                IF input.response = "accepted"
                THEN Append(db.groupMemberships,
                            [groupId |-> row[1].groupId, userId |-> input.userId,
                             role |-> "member"])
                ELSE db.groupMemberships
      /\ ~open => db' = db
      /\ db'.groupMemberships # db.groupMemberships =>
           (open /\ ~late /\ input.response = "accepted")

\* C28: an invitation leaves the pending status at most once and never
\* returns to it; respondToInvitation succeeds only for a pending invitation
\* addressed to the caller; when expiresAt has passed it sets the status to
\* expired, fails and adds no membership; a membership is added only on the
\* transition from pending to accepted; a response to an invitation that is
\* already accepted, declined or expired fails and changes nothing.
C28_InvitationAnsweredOnce ==
  [][/\ AnsweredStaysAnswered
     /\ called' = "groups.respondToInvitation" => RespondsAsSpecified]_vars

\* an expired answer next to an accepted invitation
C28_ExpiredAfterAnAcceptedOne ==
  /\ called = "groups.respondToInvitation"
  /\ result.outcome = "This invitation has expired"
  /\ \E i, j \in 1..Len(db.groupInvitations) :
       /\ db.groupInvitations[i].status = "accepted"
       /\ db.groupInvitations[j].status = "expired"
       /\ db.groupInvitations[j].id = result.input.invitationId

Accepted(row) == row.status = "accepted"

\* C29: an accepted friendship is symmetric in every reachable state after
\* any sequence of sendFriendRequest, respondToFriendRequest,
\* cancelFriendRequest and removeFriend calls: for every accepted record
\* (u -> f) there is an accepted record (f -> u); and there is at most one
\* accepted record per ordered pair.
C29_AcceptedFriendshipsSymmetric ==
  /\ \A i \in 1..Len(db.friendships) :
       Accepted(db.friendships[i]) =>
         \E j \in 1..Len(db.friendships) :
           /\ Accepted(db.friendships[j])
           /\ db.friendships[j].userId = db.friendships[i].friendId
           /\ db.friendships[j].friendId = db.friendships[i].userId
  /\ \A i, j \in 1..Len(db.friendships) :
       (/\ Accepted(db.friendships[i]) /\ Accepted(db.friendships[j])
        /\ db.friendships[i].userId = db.friendships[j].userId
        /\ db.friendships[i].friendId = db.friendships[j].friendId) => i = j
====
